---------------------------- MODULE Spec2Model ----------------------------
(***************************************************************************)
(* A model of the portable runtime shim src/lib/OpenMRN/src/os/os.c:       *)
(* the monotonic clock (os_get_time_monotonic), the once-initializer       *)
(* (os_thread_once, FreeRTOS and EMSCRIPTEN variants), the two-region      *)
(* heap manager (_sbrk_r), thread creation (os_thread_create), the task    *)
(* registry with its health monitor (vApplicationIdleHook) and the         *)
(* bootstrap (main, main_thread).  Each subsystem has its own              *)
(* specification; the variables of the other subsystems keep their initial *)
(* values in it.                                                           *)
(***************************************************************************)
EXTENDS Integers, Sequences, FiniteSets, TLC

VARIABLES
    \* ---- os_get_time_monotonic ----
    last,       \* static long long last (os.c:598)
    time,       \* per caller: the local `time` (os.c:599)
    tmp,        \* per caller: the value of `last` loaded by last++ (os.c:657)
    cpc,        \* per caller: position inside os_get_time_monotonic
    ret,        \* the values returned so far, in order of return
    src,        \* the converted source readings taken so far, in order
    serial,     \* TRUE: calls are made one after another; FALSE: preemptible
    last_millis,     \* static uint32_t last_millis (os.c:621), ARDUINO
    overflow_millis, \* static uint32_t overflow_millis (os.c:623), ARDUINO
    areads,     \* the millis() readings taken so far, in order, ARDUINO
    \* ---- os_thread_once ----
    target,     \* which variant is compiled: "FreeRTOS" or "EMSCRIPTEN"
    sched,      \* xTaskGetSchedulerState(): "NOT_STARTED" or "RUNNING"
    state,      \* per guard: once->state
    onceMutex,  \* owner of onceMutex (os.c:149), or NoUnit
    stack,      \* per unit: the active os_thread_once frames, innermost last;
                \* a frame holds its guard, the branch taken at os.c:184, its
                \* position, and whether it went round the poll loop
    count,      \* per guard: how many times its routine has been invoked
    callee,     \* per guard: the guard its routine passes to os_thread_once
    ncall,      \* per unit: top-level os_thread_once calls made so far
    died,       \* DIE() was reached (os.c:678)
    retd,       \* per unit: guards whose call returned 0 on the scheduled path
    \* ---- _sbrk_r ----
    layout,     \* the link-time heap layout (linker symbols, os.c:766-778)
    heap_end,   \* char *heap_end (os.c:771)
    heap2_end,  \* char *heap2_end (os.c:773)
    halted,     \* diewith(BLINK_DIE_OUTOFMEM) was reached (os.c:803)
    sbrk,       \* record of the latest _sbrk_r call: incr, outcome, pointer
    taken,      \* the addresses inside blocks _sbrk_r has handed out
    tracking,   \* TRUE: `taken` is kept up to date
    \* ---- os_thread_create ----
    thread_count, \* static unsigned int count (os.c:418)
    auto_name,  \* per caller: the characters 7 and 8 of auto_name (os.c:419)
    ctmp,       \* per caller: the value of `count` loaded by count++ (os.c:427)
    npc,        \* per caller: position inside os.c:421-429
    names,      \* the names units were created with, in order of creation
    created,    \* the latest FreeRTOS os_thread_create call: its arguments,
                \* what it handed to the scheduler and what it recorded
    host,       \* the host-threaded build: "linux", "mach", "mingw", "other"
    hpc,        \* position inside the pthread branch (os.c:539-585)
    result,     \* int result (os.c:541)
    done,       \* the library calls made so far by the pthread branch
    hret,       \* the value the pthread branch returned, or NoReturn
    \* ---- task registry, health monitor and bootstrap ----
    xSchedulerRunning,    \* vTaskStartScheduler has been called (os.c:1006)
    uxSchedulerSuspended, \* nesting depth of vTaskSuspendAll
    holder,     \* the task that suspended the scheduler, or NoTask
    taskList,   \* the registry, head first (os.c:146)
    mpc,        \* position of main / main_thread / the application
    mret,       \* where add_thread_to_task_list returns to in the main thread
    task_new,   \* the entry the main thread is about to link (os.c:453)
    upc,        \* per spawned unit: position inside os_thread_start
    ipc,        \* position of the idle task inside vApplicationIdleHook
    ptl,        \* first pass of the idle hook: the position *ptl refers to
    tl,         \* second pass of the idle hook: the entry tl points to
    covered,    \* units that had gone before the running idle cycle began
    swept,      \* units that had gone before a completed idle cycle began
    boot,       \* the bootstrap steps taken so far, in order
    configUSE_TIMERS, \* whether the build has the timer daemon (os.c:893)
    scheduled,  \* TRUE: the FreeRTOS build of main; FALSE: the other one
    stack_args, \* the stack_size arguments the application spawns units with
                \* (os.c:942, 1007)
    stack_size, \* per spawned unit: the stack_size its creator asked for
    appl_result, \* what appl_main returned, or NoReturn
    exit_status \* what main returned (os.c:1013), or NoReturn

millisVars == <<last_millis, overflow_millis, areads>>
clockVars == <<last, time, tmp, cpc, ret, src, serial, millisVars>>
onceVars  == <<target, sched, state, onceMutex, stack, count, callee, ncall, died,
              retd>>
heapVars  == <<layout, heap_end, heap2_end, halted, sbrk, taken, tracking>>
createVars == <<thread_count, auto_name, ctmp, npc, names, created, host, hpc,
                result, done, hret>>
appVars   == <<scheduled, stack_args, stack_size, appl_result, exit_status>>
taskVars  == <<xSchedulerRunning, uxSchedulerSuspended, holder, taskList, mpc,
               mret, task_new, upc, ipc, ptl, tl, covered, swept, boot,
               configUSE_TIMERS, appVars>>
vars      == <<clockVars, onceVars, heapVars, createVars, taskVars>>

-----------------------------------------------------------------------------
(* Bounds of the model.                                                    *)

\* number of execution units that call into the shim
NumUnits == 2
\* total number of os_get_time_monotonic calls in one behaviour
MaxClockCalls == 5
\* largest converted source reading (the smallest is -1)
MaxReading == 2
\* top-level os_thread_once calls per unit
MaxOnceCalls == 2
\* width of a pointer / ptrdiff_t in bits
AddrBits == 4
\* total number of os_thread_create calls that generate a name
MaxNameCalls == 3
\* configMAX_PRIORITIES of the FreeRTOS configuration the shim is built with
configMAX_PRIORITIES == 5
\* number of units the application spawns
MaxSpawn == 3
\* width in bits of the millis() counter of the ARDUINO clock path
MillisBits == 3
\* number of os_get_time_monotonic calls on the ARDUINO clock path
MaxMillisCalls == 3
\* top-level os_thread_once calls per unit where termination is checked
MaxFairCalls == 1

Units == 1..NumUnits
NoUnit == 0

-----------------------------------------------------------------------------
(*                       MONOTONIC CLOCK (os.c:596-665)                    *)

\* the value the platform branch leaves in `time` (os.c:600-651); the source
\* may be constant, go backwards (a wrapped tick counter) or be negative
Readings == (-1)..MaxReading

MutNotLater(t, l) == t < l

\* os.c:655   if (time <= last)
NotLater(t, l) == t <= l

MutBumped(l) == l + 2

\* os.c:657   last++
Bumped(l) == l + 1

ClockIdle ==
    /\ last = 0
    /\ time = [u \in Units |-> 0]
    /\ tmp = [u \in Units |-> 0]
    /\ cpc = [u \in Units |-> "idle"]
    /\ ret = <<>>
    /\ src = <<>>

\* os.c:596-651: enter the function and read the source into `time`
ReadSource(u) ==
    /\ cpc[u] = "idle"
    /\ Len(src) < MaxClockCalls
    /\ serial => \A v \in Units : cpc[v] = "idle"
    /\ \E r \in Readings :
          /\ time' = [time EXCEPT ![u] = r]
          /\ src' = Append(src, r)
    /\ cpc' = [cpc EXCEPT ![u] = "cmp"]
    /\ UNCHANGED <<last, tmp, ret, serial, millisVars>>
    /\ UNCHANGED <<onceVars, heapVars, createVars, taskVars>>

\* os.c:655: the comparison reads `last` and picks a branch
Compare(u) ==
    /\ cpc[u] = "cmp"
    /\ cpc' = [cpc EXCEPT ![u] = IF NotLater(time[u], last) THEN "inc_load" ELSE "set"]
    /\ UNCHANGED <<last, time, tmp, ret, src, serial, millisVars>>
    /\ UNCHANGED <<onceVars, heapVars, createVars, taskVars>>

\* os.c:657: last++ loads `last` ...
IncLoad(u) ==
    /\ cpc[u] = "inc_load"
    /\ tmp' = [tmp EXCEPT ![u] = last]
    /\ cpc' = [cpc EXCEPT ![u] = "inc_store"]
    /\ UNCHANGED <<last, time, ret, src, serial, millisVars>>
    /\ UNCHANGED <<onceVars, heapVars, createVars, taskVars>>

\* os.c:657: ... and stores the loaded value plus one
IncStore(u) ==
    /\ cpc[u] = "inc_store"
    /\ last' = Bumped(tmp[u])
    /\ cpc' = [cpc EXCEPT ![u] = "ret"]
    /\ UNCHANGED <<time, tmp, ret, src, serial, millisVars>>
    /\ UNCHANGED <<onceVars, heapVars, createVars, taskVars>>

\* os.c:661: last = time
SetLast(u) ==
    /\ cpc[u] = "set"
    /\ last' = time[u]
    /\ cpc' = [cpc EXCEPT ![u] = "ret"]
    /\ UNCHANGED <<time, tmp, ret, src, serial, millisVars>>
    /\ UNCHANGED <<onceVars, heapVars, createVars, taskVars>>

\* os.c:664: return last; the locals of the call go out of scope
ReturnLast(u) ==
    /\ cpc[u] = "ret"
    /\ ret' = Append(ret, last)
    /\ cpc' = [cpc EXCEPT ![u] = "idle"]
    /\ time' = [time EXCEPT ![u] = 0]
    /\ tmp' = [tmp EXCEPT ![u] = 0]
    /\ UNCHANGED <<last, src, serial, millisVars>>
    /\ UNCHANGED <<onceVars, heapVars, createVars, taskVars>>

\* ---- the ARDUINO branch (os.c:620-631) ----

\* the values millis() can return: an unsigned counter MillisBits wide
MillisModulus == 2 ^ MillisBits
Millis == 0..(MillisModulus - 1)

\* os.c:624   if (new_millis < last_millis), an unsigned comparison
Wrapped(new_millis, lm) == new_millis < lm

\* os.c:628-631   time = overflow_millis; time <<= 32; time += new_millis;
\* time *= 1000000, the shift being the width of the counter
PreCorrection(o, new_millis) == (o * MillisModulus + new_millis) * 1000000

MillisIdle ==
    /\ last_millis = 0
    /\ overflow_millis = 0
    /\ areads = <<>>

\* os.c:596-664, ARDUINO build, one whole call while millis() reads m:
\* last_millis is compared but never assigned, so it keeps its initializer
ArduinoCall(m) ==
    /\ Len(areads) < MaxMillisCalls
    /\ areads' = Append(areads, m)
    /\ overflow_millis' =
          IF Wrapped(m, last_millis) THEN overflow_millis + 1
          ELSE overflow_millis
    /\ last_millis' = last_millis
    /\ LET t == PreCorrection(overflow_millis', m) IN
          /\ src' = Append(src, t)
          /\ last' = IF NotLater(t, last) THEN Bumped(last) ELSE t
          /\ ret' = Append(ret, last')
    /\ UNCHANGED <<time, tmp, cpc, serial>>
    /\ UNCHANGED <<onceVars, heapVars, createVars, taskVars>>

-----------------------------------------------------------------------------
(*          ONCE-INITIALIZER (os.c:182-218 FreeRTOS, 668-681 EMSCRIPTEN)   *)

\* the once guards of the program and the `no nested call` marker
Guards == {"A", "B"}
NoGuard == "none"

\* the unit that runs static constructors before vTaskStartScheduler
\* (os.c:1006) and the only thread of an EMSCRIPTEN build
BootUnit == 1

Top(u) == stack[u][Len(stack[u])]
SetPc(u, p) == [stack EXCEPT ![u][Len(stack[u])].pc = p]
InOnce(u) == stack[u] /= <<>>
At(u, pcs) == InOnce(u) /\ Top(u).pc \in pcs

MutNeedsRun(s) == TRUE

MutNeedsRunStale(s) == s /= "INPROGRESS"

\* os.c:188, 209, 670   once->state == OS_THREAD_ONCE_NEVER
NeedsRun(s) == s = "NEVER"

MutStillInProgress(s) == FALSE

MutNeverDone(s) == TRUE

\* os.c:197   while (once->state == OS_THREAD_ONCE_INPROGRESS)
StillInProgress(s) == s = "INPROGRESS"

MutAfterInProgress(p) ==
    CASE p = "L190" -> "L192"
      [] p = "L211" -> "L212"
      [] p = "E672" -> "E673"

\* os.c:190-192: in the scheduled branch the mutex is released (191) between
\* marking the guard in progress and running the routine
AfterInProgress(p) ==
    CASE p = "L190" -> "L191"
      [] p = "L211" -> "L212"
      [] p = "E672" -> "E673"

OnceIdle ==
    /\ sched = "NOT_STARTED"
    /\ state = [g \in Guards |-> "NEVER"]
    /\ onceMutex = NoUnit
    /\ stack = [u \in Units |-> <<>>]
    /\ count = [g \in Guards |-> 0]
    /\ ncall = [u \in Units |-> 0]
    /\ died = FALSE
    /\ retd = [u \in Units |-> {}]

\* a unit calls os_thread_once(&guard g, routine of g) from outside any routine
OnceCall(u) ==
    /\ ~died
    /\ ~InOnce(u)
    /\ ncall[u] < MaxOnceCalls
    /\ sched = "NOT_STARTED" => u = BootUnit
    /\ \E g \in Guards :
          stack' = [stack EXCEPT ![u] =
                       <<[g |-> g, mode |-> "", polled |-> FALSE,
                          pc |-> IF target = "FreeRTOS" THEN "L184" ELSE "E670"]>>]
    /\ ncall' = [ncall EXCEPT ![u] = @ + 1]
    /\ UNCHANGED <<target, sched, state, onceMutex, count, callee, died, retd>>
    /\ UNCHANGED <<clockVars, heapVars, createVars, taskVars>>

\* os.c:1006 vTaskStartScheduler(): static construction is over
StartScheduler ==
    /\ ~died
    /\ target = "FreeRTOS"
    /\ sched = "NOT_STARTED"
    /\ \A u \in Units : ~InOnce(u)
    /\ sched' = "RUNNING"
    /\ UNCHANGED <<target, state, onceMutex, stack, count, callee, ncall, died, retd>>
    /\ UNCHANGED <<clockVars, heapVars, createVars, taskVars>>

\* os.c:184   if (xTaskGetSchedulerState() == taskSCHEDULER_RUNNING)
SchedulerTest(u) ==
    /\ ~died
    /\ At(u, {"L184"})
    /\ stack' = [stack EXCEPT ![u][Len(stack[u])] =
                    IF sched = "RUNNING"
                    THEN [@ EXCEPT !.mode = "sched", !.pc = "L187"]
                    ELSE [@ EXCEPT !.mode = "nosched", !.pc = "L209"]]
    /\ UNCHANGED <<target, sched, state, onceMutex, count, callee, ncall, died, retd>>
    /\ UNCHANGED <<clockVars, heapVars, createVars, taskVars>>

\* os.c:187, 193, 202   os_mutex_lock(&onceMutex): blocks while it is owned
Lock(u) ==
    /\ ~died
    /\ At(u, {"L187", "L193", "L202"})
    /\ onceMutex = NoUnit
    /\ onceMutex' = u
    /\ stack' = SetPc(u, CASE Top(u).pc = "L187" -> "L188"
                           [] Top(u).pc = "L193" -> "L194"
                           [] Top(u).pc = "L202" -> "L197")
    /\ UNCHANGED <<target, sched, state, count, callee, ncall, died, retd>>
    /\ UNCHANGED <<clockVars, heapVars, createVars, taskVars>>

\* os.c:191, 200, 204   os_mutex_unlock(&onceMutex)
Unlock(u) ==
    /\ ~died
    /\ At(u, {"L191", "L200", "L204"})
    /\ onceMutex' = NoUnit
    /\ stack' = SetPc(u, CASE Top(u).pc = "L191" -> "L192"
                           [] Top(u).pc = "L200" -> "L201"
                           [] Top(u).pc = "L204" -> "L217")
    /\ UNCHANGED <<target, sched, state, count, callee, ncall, died, retd>>
    /\ UNCHANGED <<clockVars, heapVars, createVars, taskVars>>

\* os.c:188, 209, 670   if (once->state == OS_THREAD_ONCE_NEVER)
TestNever(u) ==
    /\ ~died
    /\ At(u, {"L188", "L209", "E670"})
    /\ LET p == Top(u).pc
           run == NeedsRun(state[Top(u).g])
       IN stack' = SetPc(u, CASE p = "L188" -> IF run THEN "L190" ELSE "L197"
                              [] p = "L209" -> IF run THEN "L211" ELSE "L217"
                              [] p = "E670" -> IF run THEN "E672" ELSE "E676")
    /\ UNCHANGED <<target, sched, state, onceMutex, count, callee, ncall, died, retd>>
    /\ UNCHANGED <<clockVars, heapVars, createVars, taskVars>>

\* os.c:190, 211, 672   once->state = OS_THREAD_ONCE_INPROGRESS
SetInProgress(u) ==
    /\ ~died
    /\ At(u, {"L190", "L211", "E672"})
    /\ state' = [state EXCEPT ![Top(u).g] = "INPROGRESS"]
    /\ stack' = SetPc(u, AfterInProgress(Top(u).pc))
    /\ UNCHANGED <<target, sched, onceMutex, count, callee, ncall, died, retd>>
    /\ UNCHANGED <<clockVars, heapVars, createVars, taskVars>>

\* os.c:192, 212, 673   routine(): the routine counts its invocation and, if
\* it uses another lazily initialised service, calls os_thread_once itself
Routine(u) ==
    /\ ~died
    /\ At(u, {"L192", "L212", "E673"})
    /\ LET g == Top(u).g
           p == Top(u).pc
           inside == CASE p = "L192" -> "L192r"
                       [] p = "L212" -> "L212r"
                       [] p = "E673" -> "E673r"
           outer == SetPc(u, inside)[u]
       IN /\ count' = [count EXCEPT ![g] = @ + 1]
          /\ stack' = [stack EXCEPT ![u] =
                          IF callee[g] = NoGuard
                          THEN outer
                          ELSE Append(outer,
                                      [g |-> callee[g], mode |-> "", polled |-> FALSE,
                                       pc |-> IF target = "FreeRTOS"
                                              THEN "L184" ELSE "E670"])]
    /\ UNCHANGED <<target, sched, state, onceMutex, callee, ncall, died, retd>>
    /\ UNCHANGED <<clockVars, heapVars, createVars, taskVars>>

\* the routine returns to os_thread_once (os.c:192->193, 212->213, 673->674)
RoutineReturn(u) ==
    /\ ~died
    /\ At(u, {"L192r", "L212r", "E673r"})
    /\ stack' = SetPc(u, CASE Top(u).pc = "L192r" -> "L193"
                           [] Top(u).pc = "L212r" -> "L213"
                           [] Top(u).pc = "E673r" -> "E674")
    /\ UNCHANGED <<target, sched, state, onceMutex, count, callee, ncall, died, retd>>
    /\ UNCHANGED <<clockVars, heapVars, createVars, taskVars>>

\* os.c:194, 213, 674   once->state = OS_THREAD_ONCE_DONE
SetDone(u) ==
    /\ ~died
    /\ At(u, {"L194", "L213", "E674"})
    /\ state' = [state EXCEPT ![Top(u).g] = "DONE"]
    /\ stack' = SetPc(u, CASE Top(u).pc = "L194" -> "L197"
                           [] Top(u).pc = "L213" -> "L217"
                           [] Top(u).pc = "E674" -> "E680")
    /\ UNCHANGED <<target, sched, onceMutex, count, callee, ncall, died, retd>>
    /\ UNCHANGED <<clockVars, heapVars, createVars, taskVars>>

\* os.c:197   while (once->state == OS_THREAD_ONCE_INPROGRESS)
PollTest(u) ==
    /\ ~died
    /\ At(u, {"L197"})
    /\ stack' = [stack EXCEPT ![u][Len(stack[u])] =
                    IF StillInProgress(state[Top(u).g])
                    THEN [@ EXCEPT !.polled = TRUE, !.pc = "L200"]
                    ELSE [@ EXCEPT !.pc = "L204"]]
    /\ UNCHANGED <<target, sched, state, onceMutex, count, callee, ncall, died, retd>>
    /\ UNCHANGED <<clockVars, heapVars, createVars, taskVars>>

\* os.c:201   usleep(MSEC_TO_USEC(10))
Sleep(u) ==
    /\ ~died
    /\ At(u, {"L201"})
    /\ stack' = SetPc(u, "L202")
    /\ UNCHANGED <<target, sched, state, onceMutex, count, callee, ncall, died, retd>>
    /\ UNCHANGED <<clockVars, heapVars, createVars, taskVars>>

\* os.c:676   else if (once->state == OS_THREAD_ONCE_INPROGRESS)
RecursionTest(u) ==
    /\ ~died
    /\ At(u, {"E676"})
    /\ stack' = SetPc(u, IF state[Top(u).g] = "INPROGRESS" THEN "E678" ELSE "E680")
    /\ UNCHANGED <<target, sched, state, onceMutex, count, callee, ncall, died, retd>>
    /\ UNCHANGED <<clockVars, heapVars, createVars, taskVars>>

\* os.c:678   DIE("Recursive call to os_thread_once."): the program halts
Die(u) ==
    /\ ~died
    /\ At(u, {"E678"})
    /\ died' = TRUE
    /\ UNCHANGED <<target, sched, state, onceMutex, stack, count, callee, ncall, retd>>
    /\ UNCHANGED <<clockVars, heapVars, createVars, taskVars>>

\* os.c:217, 680   return 0
OnceReturn(u) ==
    /\ ~died
    /\ At(u, {"L217", "E680"})
    /\ stack' = [stack EXCEPT ![u] = SubSeq(@, 1, Len(@) - 1)]
    /\ retd' = [retd EXCEPT ![u] = IF Top(u).mode = "sched" THEN @ \cup {Top(u).g} ELSE @]
    /\ UNCHANGED <<target, sched, state, onceMutex, count, callee, ncall, died>>
    /\ UNCHANGED <<clockVars, heapVars, createVars, taskVars>>

-----------------------------------------------------------------------------
(*                        HEAP MANAGER (os.c:765-808)                      *)

\* addresses and ptrdiff_t values are AddrBits wide: pointer arithmetic wraps
AddrSpace == 2 ^ AddrBits
Incrs == (0 - AddrSpace \div 2)..(AddrSpace \div 2 - 1)
PtrAdd(p, i) == (p + i) % AddrSpace

\* The linker symbols: a primary region low in the address space with a
\* secondary region, the same without a secondary region (both weak symbols
\* alias __heap2_start_alias, os.c:766-768), and a primary region in the upper
\* half of the address space (RAM mapped above the sign bit of ptrdiff_t).
Layouts ==
    { [cs3s |-> 2, cs3e |-> 5, h2s |-> 8, h2e |-> 10],
      [cs3s |-> 2, cs3e |-> 5, h2s |-> 7, h2e |-> 7],
      [cs3s |-> AddrSpace - 6, cs3e |-> AddrSpace - 3, h2s |-> 3, h2e |-> 5] }

cs3_heap_start == layout.cs3s
cs3_heap_end == layout.cs3e
heap2_start_sym == layout.h2s
heap2_end_sym == layout.h2e

\* os.c:780-783 and 784-787: the bump pointers are set on first use
HeapEnd == IF heap_end = 0 THEN cs3_heap_start ELSE heap_end
Heap2End == IF heap2_end = 0 THEN heap2_start_sym ELSE heap2_end

\* os.c:789   (heap_end + incr) > &__cs3_heap_end
PrimaryFull(he, incr) == PtrAdd(he, incr) > cs3_heap_end

\* os.c:791   &__heap2_start != &__heap2_end
HasSecondary == heap2_start_sym /= heap2_end_sym

MutSecondaryFits(h2, incr) == PtrAdd(h2, incr) < heap2_end_sym

\* os.c:796   (heap2_end + incr) <= &__heap2_end
SecondaryFits(h2, incr) == PtrAdd(h2, incr) <= heap2_end_sym

NoCall == [seq |-> 0, incr |-> 0, outcome |-> "none", ptr |-> 0]

\* the addresses of the block [p, p + incr) a call returns; a call with a
\* negative incr gives [p + incr, p) back
Block(p, incr) == {PtrAdd(p, k) : k \in 0..(incr - 1)}
Released(p, incr) == {PtrAdd(p, 0 - k) : k \in 1..(0 - incr)}
Handed(p, incr) ==
    IF tracking THEN (taken \ Released(p, incr)) \cup Block(p, incr) ELSE taken

HeapIdle ==
    /\ heap_end = 0
    /\ heap2_end = 0
    /\ halted = FALSE
    /\ sbrk = NoCall
    /\ taken = {}

\* os.c:774-808   _sbrk_r(reent, incr); diewith() does not return
Sbrk(incr) ==
    /\ ~halted
    /\ IF PrimaryFull(HeapEnd, incr)
       THEN IF HasSecondary /\ SecondaryFits(Heap2End, incr)
            THEN /\ heap_end' = HeapEnd
                 /\ heap2_end' = PtrAdd(Heap2End, incr)
                 /\ halted' = FALSE
                 /\ sbrk' = [seq |-> 1 - sbrk.seq, incr |-> incr,
                             outcome |-> "secondary", ptr |-> Heap2End]
                 /\ taken' = Handed(Heap2End, incr)
            ELSE /\ heap_end' = HeapEnd
                 /\ heap2_end' = Heap2End
                 /\ halted' = TRUE
                 /\ sbrk' = [seq |-> 1 - sbrk.seq, incr |-> incr,
                             outcome |-> "fatal", ptr |-> 0]
                 /\ taken' = taken
       ELSE /\ heap_end' = PtrAdd(HeapEnd, incr)
            /\ heap2_end' = Heap2End
            /\ halted' = FALSE
            /\ sbrk' = [seq |-> 1 - sbrk.seq, incr |-> incr,
                        outcome |-> "primary", ptr |-> HeapEnd]
            /\ taken' = Handed(HeapEnd, incr)
    /\ UNCHANGED <<layout, tracking>>
    /\ UNCHANGED <<clockVars, onceVars, createVars, taskVars>>

-----------------------------------------------------------------------------
(*                     THREAD CREATION (os.c:414-587)                      *)

\* ---- the auto-generated name (os.c:421-429) ----

\* os.c:425   auto_name[8] = '0' + (count % 10), stored in a char
Digit8(c) == (48 + (c % 10)) % 256
\* os.c:426   auto_name[7] = '0' + (count / 10), stored in a char
Digit7(c) == (48 + (c \div 10)) % 256

NameIdle ==
    /\ thread_count = 0
    /\ auto_name = [u \in Units |-> [c7 |-> 0, c8 |-> 0]]
    /\ ctmp = [u \in Units |-> 0]
    /\ npc = [u \in Units |-> "idle"]
    /\ names = <<>>

\* os.c:414-424: os_thread_create is entered with name == NULL
NameCall(u) ==
    /\ npc[u] = "idle"
    /\ Len(names) + Cardinality({v \in Units : npc[v] # "idle"}) < MaxNameCalls
    /\ npc' = [npc EXCEPT ![u] = "L425"]
    /\ UNCHANGED <<thread_count, auto_name, ctmp, names>>
    /\ UNCHANGED <<created, host, hpc, result, done, hret>>
    /\ UNCHANGED <<clockVars, onceVars, heapVars, taskVars>>

\* os.c:425: reads count
SetDigit8(u) ==
    /\ npc[u] = "L425"
    /\ auto_name' = [auto_name EXCEPT ![u].c8 = Digit8(thread_count)]
    /\ npc' = [npc EXCEPT ![u] = "L426"]
    /\ UNCHANGED <<thread_count, ctmp, names>>
    /\ UNCHANGED <<created, host, hpc, result, done, hret>>
    /\ UNCHANGED <<clockVars, onceVars, heapVars, taskVars>>

\* os.c:426: reads count again
SetDigit7(u) ==
    /\ npc[u] = "L426"
    /\ auto_name' = [auto_name EXCEPT ![u].c7 = Digit7(thread_count)]
    /\ npc' = [npc EXCEPT ![u] = "L427_load"]
    /\ UNCHANGED <<thread_count, ctmp, names>>
    /\ UNCHANGED <<created, host, hpc, result, done, hret>>
    /\ UNCHANGED <<clockVars, onceVars, heapVars, taskVars>>

\* os.c:427: count++ loads count ...
CountLoad(u) ==
    /\ npc[u] = "L427_load"
    /\ ctmp' = [ctmp EXCEPT ![u] = thread_count]
    /\ npc' = [npc EXCEPT ![u] = "L427_store"]
    /\ UNCHANGED <<thread_count, auto_name, names>>
    /\ UNCHANGED <<created, host, hpc, result, done, hret>>
    /\ UNCHANGED <<clockVars, onceVars, heapVars, taskVars>>

\* os.c:427: ... and stores the loaded value plus one
CountStore(u) ==
    /\ npc[u] = "L427_store"
    /\ thread_count' = ctmp[u] + 1
    /\ npc' = [npc EXCEPT ![u] = "L428"]
    /\ UNCHANGED <<auto_name, ctmp, names>>
    /\ UNCHANGED <<created, host, hpc, result, done, hret>>
    /\ UNCHANGED <<clockVars, onceVars, heapVars, taskVars>>

\* os.c:428-586: name = auto_name; the unit is created under that name and
\* the call returns, its locals go out of scope
CreateNamed(u) ==
    /\ npc[u] = "L428"
    /\ names' = Append(names, auto_name[u])
    /\ auto_name' = [auto_name EXCEPT ![u] = [c7 |-> 0, c8 |-> 0]]
    /\ ctmp' = [ctmp EXCEPT ![u] = 0]
    /\ npc' = [npc EXCEPT ![u] = "idle"]
    /\ UNCHANGED thread_count
    /\ UNCHANGED <<created, host, hpc, result, done, hret>>
    /\ UNCHANGED <<clockVars, onceVars, heapVars, taskVars>>

\* ---- priority and stack size on a scheduled target (os.c:439-454) ----

\* the priority and stack_size arguments tried
PriorityArgs == (0 - 3)..(configMAX_PRIORITIES + 3)
StackArgs == {0, 1, 512, 1024, 2047, 2048, 2049, 4096, 8192}

MutPriority(p) ==
    IF p = 0 THEN configMAX_PRIORITIES - 1
    ELSE IF p >= configMAX_PRIORITIES THEN configMAX_PRIORITIES - 1
    ELSE p

\* os.c:439-446: the priority passed to xTaskCreate
Priority(p) ==
    IF p = 0 THEN configMAX_PRIORITIES \div 2
    ELSE IF p >= configMAX_PRIORITIES THEN configMAX_PRIORITIES - 1
    ELSE p

\* os.c:448-451: the stack size the unit is created with, in bytes
StackSize(s) == IF s = 0 THEN 2048 ELSE s

\* sizeof(portSTACK_TYPE) (os.c:460, 858)
StackWord == 4

NoCreate ==
    [called |-> FALSE, priority |-> 0, stack_size |-> 0, uxPriority |-> 0,
     usStackDepth |-> 0, stack |-> 0, unused |-> 0]

ArgsIdle == created = NoCreate

\* os.c:432-537 for one pair of arguments: the priority and the stack depth
\* in words xTaskCreate is given, the size in bytes of the stack allocated
\* with stack_malloc, and what task_new->unused is set to (os.c:454)
CreateTask(p, s) ==
    /\ created' = [called |-> TRUE, priority |-> p, stack_size |-> s,
                   uxPriority |-> Priority(p),
                   usStackDepth |-> StackSize(s) \div StackWord,
                   stack |-> StackSize(s), unused |-> StackSize(s)]
    /\ UNCHANGED <<thread_count, auto_name, ctmp, npc, names>>
    /\ UNCHANGED <<host, hpc, result, done, hret>>
    /\ UNCHANGED <<clockVars, onceVars, heapVars, taskVars>>

\* ---- the host-threaded branch (os.c:539-585) ----

Hosts == {"linux", "mach", "mingw", "other"}
\* what a pthread call may return: 0, or an error number
Errnos == {0, 11, 12, 22}
NoReturn == 0 - 1

\* os.c:541-578: the attribute calls compiled in, in program order
AttrSteps(h) ==
    IF h \in {"linux", "mach"}
    THEN <<"pthread_attr_init", "pthread_attr_setdetachstate">>
    ELSE <<"pthread_attr_init", "pthread_attr_setdetachstate",
           "pthread_attr_setstacksize", "pthread_attr_setschedparam",
           "pthread_attr_setinheritsched", "pthread_attr_setschedpolicy">>

\* os.c:541-579: every call up to pthread_create
HostSteps(h) == Append(AttrSteps(h), "pthread_create")

\* the call that follows call st when st succeeded
NextStep(h, st) ==
    LET i == CHOOSE k \in 1..Len(AttrSteps(h)) : AttrSteps(h)[k] = st
    IN  HostSteps(h)[i + 1]

\* os.c:581   #if !defined (__MINGW32__) && !defined (__MACH__)
SetsName(h) == h \notin {"mingw", "mach"}

MutFailed(r) == FALSE

\* os.c:542, 547, 555, 562, 568, 574   if (result != 0);  os.c:582  if (!result)
Failed(r) == r # 0

HostIdle ==
    /\ hpc = "idle"
    /\ result = 0
    /\ done = <<>>
    /\ hret = NoReturn

\* os.c:539-540: the pthread branch is entered
HostCall ==
    /\ hpc = "idle"
    /\ hpc' = "pthread_attr_init"
    /\ UNCHANGED <<host, result, done, hret>>
    /\ UNCHANGED <<thread_count, auto_name, ctmp, npc, names, created>>
    /\ UNCHANGED <<clockVars, onceVars, heapVars, taskVars>>

\* os.c:541-577: one attribute call and the test of its result
AttrStep(e) ==
    /\ \E k \in 1..Len(AttrSteps(host)) : AttrSteps(host)[k] = hpc
    /\ result' = e
    /\ done' = Append(done, [call |-> hpc, result |-> e])
    /\ IF Failed(e)
       THEN hpc' = "returned" /\ hret' = e
       ELSE hpc' = NextStep(host, hpc) /\ UNCHANGED hret
    /\ UNCHANGED host
    /\ UNCHANGED <<thread_count, auto_name, ctmp, npc, names, created>>
    /\ UNCHANGED <<clockVars, onceVars, heapVars, taskVars>>

\* os.c:579-582: pthread_create and the test that guards the naming
PthreadCreate(e) ==
    /\ hpc = "pthread_create"
    /\ result' = e
    /\ done' = Append(done, [call |-> hpc, result |-> e])
    /\ hpc' = IF SetsName(host) /\ ~Failed(e) THEN "pthread_setname_np"
              ELSE "return"
    /\ UNCHANGED <<host, hret>>
    /\ UNCHANGED <<thread_count, auto_name, ctmp, npc, names, created>>
    /\ UNCHANGED <<clockVars, onceVars, heapVars, taskVars>>

\* os.c:582: pthread_setname_np; its return value is not looked at
SetName(e) ==
    /\ hpc = "pthread_setname_np"
    /\ done' = Append(done, [call |-> hpc, result |-> e])
    /\ hpc' = "return"
    /\ UNCHANGED <<host, result, hret>>
    /\ UNCHANGED <<thread_count, auto_name, ctmp, npc, names, created>>
    /\ UNCHANGED <<clockVars, onceVars, heapVars, taskVars>>

\* os.c:585: return result
HostReturn ==
    /\ hpc = "return"
    /\ hret' = result
    /\ hpc' = "returned"
    /\ UNCHANGED <<host, result, done>>
    /\ UNCHANGED <<thread_count, auto_name, ctmp, npc, names, created>>
    /\ UNCHANGED <<clockVars, onceVars, heapVars, taskVars>>

-----------------------------------------------------------------------------
(*   TASK REGISTRY, HEALTH MONITOR AND BOOTSTRAP (os.c:317-340, 395-401,   *)
(*   689-732, 835-919, 940-1006; FreeRTOS build)                           *)

\* task handles: the units the application spawns, the main thread, the idle
\* task and the timer daemon; NoTask is the NULL handle
Spawned == 1..MaxSpawn
NoTask == 0
MainTask == MaxSpawn + 1
IdleTask == MaxSpawn + 2
TimerTask == MaxSpawn + 3

\* os.c:99   #define DELETED_TASK_MAGIC 0xb5c5d5e5, as the 32-bit two's
\* complement number with that bit pattern
DELETED_TASK_MAGIC == -1245325851
\* what uxTaskGetStackHighWaterMark may report, in words
HighWaterMarks == {64}
\* config_main_thread_stack_size() (os.c:1002)
MainStack == 2048

\* a registry entry (os.c:137-143); owner identifies the entry itself: the
\* task it was allocated for, which is also the task its name belongs to
Entry(t, un) == [owner |-> t, task |-> t, unused |-> un]
NoEntry == [owner |-> NoTask, task |-> NoTask, unused |-> 0]

Owners(list) == {list[i].owner : i \in 1..Len(list)}
IndexOf(list, t) == CHOOSE i \in 1..Len(list) : list[i].owner = t
RemoveAt(list, i) == SubSeq(list, 1, i - 1) \o SubSeq(list, i + 1, Len(list))
\* tl->next of the entry owned by t
NextOf(list, t) ==
    LET i == IndexOf(list, t)
    IN  IF i < Len(list) THEN list[i + 1].owner ELSE NoTask

MutSuspendAll(d) == d

\* vTaskSuspendAll(): ++uxSchedulerSuspended
SuspendAll(d) == d + 1

MutResumeAll(d) == d

\* xTaskResumeAll(): --uxSchedulerSuspended
ResumeAll(d) == d - 1

\* os.c:690   if (xTaskGetSchedulerState() != taskSCHEDULER_NOT_STARTED)
MallocLocks == xSchedulerRunning

MutMallocUnlocks == TRUE

\* os.c:699   if (xTaskGetSchedulerState() != taskSCHEDULER_NOT_STARTED)
MallocUnlocks == xSchedulerRunning

\* the calling task t suspends / resumes the scheduler
Suspend(t) ==
    /\ uxSchedulerSuspended' = SuspendAll(uxSchedulerSuspended)
    /\ holder' = IF uxSchedulerSuspended' > 0 THEN t ELSE holder

Resume(t) ==
    /\ uxSchedulerSuspended' = ResumeAll(uxSchedulerSuspended)
    /\ holder' = IF uxSchedulerSuspended' > 0 THEN t ELSE NoTask

\* os.c:688-694   __malloc_lock() called by task t
MallocLock(t) ==
    IF MallocLocks
    THEN Suspend(t)
    ELSE UNCHANGED <<uxSchedulerSuspended, holder>>

\* os.c:697-703   __malloc_unlock() called by task t
MallocUnlock(t) ==
    IF MallocUnlocks
    THEN Resume(t)
    ELSE UNCHANGED <<uxSchedulerSuspended, holder>>

\* the positions of main (os.c:946) and of the application before it calls
\* os_thread_create (os.c:432) at their malloc, inside it, and where each
\* goes on
MallocPcs == {"main_malloc", "app"}
LockedPcs == {"main_malloc_locked", "create_malloc_locked"}
Locked(p) ==
    IF p = "main_malloc" THEN "main_malloc_locked" ELSE "create_malloc_locked"
AfterMalloc(p) ==
    IF p = "main_malloc_locked" THEN "create_main" ELSE "create"

\* a task can take a step unless another task has suspended the scheduler
CanStep(t) == uxSchedulerSuspended <= 0 \/ holder = t

AddPcs == {"add_suspend", "add_link", "add_resume"}

\* the idle task has the lowest priority: it runs only while the main thread
\* is inside the application (where it may block) and every spawned unit is
\* inside its entry function (where it may block) or does not exist
IdleRuns ==
    /\ xSchedulerRunning
    /\ CanStep(IdleTask)
    /\ mpc = "app"
    /\ \A u \in Spawned : upc[u] \in {"none", "entry", "deleted"}

MutMarkEntry(list, i) == RemoveAt(list, i)

\* os.c:332-333   tl->task = NULL; tl->unused = DELETED_TASK_MAGIC;
MarkEntry(list, i) ==
    [list EXCEPT ![i].task = NoTask, ![i].unused = DELETED_TASK_MAGIC]

MutReclaimable(e) == FALSE

\* os.c:842   if ((*ptl)->unused == DELETED_TASK_MAGIC)
Reclaimable(e) == e.unused = DELETED_TASK_MAGIC

MutAfterYield == "appl_main"

\* what appl_main may return
ExitCodes == {0, 1, 2}

\* os.c:915-918: what main_thread does when appl_main has returned: abort()
AfterReturn == "abort"

\* os.c:1013: the value main returns, given what appl_main returned
ExitStatus(r) == r

\* the stack_size arguments the application passes to os_thread_create: the
\* default, and the one whose value is DELETED_TASK_MAGIC
SpawnStacks == {0, DELETED_TASK_MAGIC}

\* os.c:909-913: what main_thread does after os_yield_trampoline()
AfterYield == "hw_postinit"

TaskIdle ==
    /\ xSchedulerRunning = FALSE
    /\ uxSchedulerSuspended = 0
    /\ holder = NoTask
    /\ taskList = <<>>
    /\ mpc = "main"
    /\ mret = "none"
    /\ task_new = NoEntry
    /\ upc = [u \in Spawned |-> "none"]
    /\ stack_size = [u \in Spawned |-> 0]
    /\ appl_result = NoReturn
    /\ exit_status = NoReturn
    /\ ipc = "idle"
    /\ ptl = 0
    /\ tl = NoTask
    /\ covered = {}
    /\ swept = {}
    /\ boot = <<>>

\* ---- main (os.c:940-1006) and main_thread (os.c:885-919) ----

\* os.c:944: hw_init()
HwInit ==
    /\ mpc = "main"
    /\ scheduled
    /\ boot' = Append(boot, "hw_init")
    /\ mpc' = "main_malloc"
    /\ UNCHANGED <<xSchedulerRunning, uxSchedulerSuspended, holder, taskList,
                   mret, task_new, upc, ipc, ptl, tl, covered, swept,
                   configUSE_TIMERS, appVars>>
    /\ UNCHANGED <<clockVars, onceVars, heapVars, createVars>>

\* os.c:946 and 432, 453: malloc() enters __malloc_lock (os.c:688-694, 717)
MainMallocLock ==
    /\ mpc \in MallocPcs
    /\ mpc = "app" => \E u \in Spawned : upc[u] = "none"
    /\ CanStep(MainTask)
    /\ MallocLock(MainTask)
    /\ mpc' = Locked(mpc)
    /\ UNCHANGED <<xSchedulerRunning, taskList, mret, task_new, upc, ipc, ptl,
                   tl, covered, swept, boot, configUSE_TIMERS, appVars>>
    /\ UNCHANGED <<clockVars, onceVars, heapVars, createVars>>

\* os.c:946 and 432, 453: the memory is taken and malloc() leaves through
\* __malloc_unlock (os.c:697-703, 719)
MainMallocUnlock ==
    /\ mpc \in LockedPcs
    /\ CanStep(MainTask)
    /\ MallocUnlock(MainTask)
    /\ mpc' = AfterMalloc(mpc)
    /\ UNCHANGED <<xSchedulerRunning, taskList, mret, task_new, upc, ipc, ptl,
                   tl, covered, swept, boot, configUSE_TIMERS, appVars>>
    /\ UNCHANGED <<clockVars, onceVars, heapVars, createVars>>

\* os.c:946-1003: the task of main_thread is created (the scheduler is not
\* running yet) and its registry entry is filled in
CreateMainThread ==
    /\ mpc = "create_main"
    /\ boot' = Append(boot, "xTaskCreate")
    /\ task_new' = Entry(MainTask, MainStack)
    /\ mret' = "vTaskStartScheduler"
    /\ mpc' = "add_suspend"
    /\ UNCHANGED <<xSchedulerRunning, uxSchedulerSuspended, holder, taskList,
                   upc, ipc, ptl, tl, covered, swept, configUSE_TIMERS, appVars>>
    /\ UNCHANGED <<clockVars, onceVars, heapVars, createVars>>

\* os.c:397: add_thread_to_task_list, vTaskSuspendAll()
AddSuspend ==
    /\ mpc = "add_suspend"
    /\ CanStep(MainTask)
    /\ Suspend(MainTask)
    /\ mpc' = "add_link"
    /\ UNCHANGED <<xSchedulerRunning, taskList, mret, task_new, upc, ipc, ptl,
                   tl, covered, swept, boot, configUSE_TIMERS, appVars>>
    /\ UNCHANGED <<clockVars, onceVars, heapVars, createVars>>

\* os.c:398-399: task_new->next = taskList; taskList = task_new
AddLink ==
    /\ mpc = "add_link"
    /\ CanStep(MainTask)
    /\ taskList' = <<task_new>> \o taskList
    /\ mpc' = "add_resume"
    /\ UNCHANGED <<xSchedulerRunning, uxSchedulerSuspended, holder, mret,
                   task_new, upc, ipc, ptl, tl, covered, swept, boot,
                   configUSE_TIMERS, appVars>>
    /\ UNCHANGED <<clockVars, onceVars, heapVars, createVars>>

\* os.c:400: xTaskResumeAll(), and the return to the caller
AddResume ==
    /\ mpc = "add_resume"
    /\ CanStep(MainTask)
    /\ Resume(MainTask)
    /\ mpc' = mret
    /\ mret' = "none"
    /\ task_new' = NoEntry
    /\ UNCHANGED <<xSchedulerRunning, taskList, upc, ipc, ptl, tl, covered,
                   swept, boot, configUSE_TIMERS, appVars>>
    /\ UNCHANGED <<clockVars, onceVars, heapVars, createVars>>

\* os.c:1006: vTaskStartScheduler()
vTaskStartScheduler ==
    /\ mpc = "vTaskStartScheduler"
    /\ xSchedulerRunning' = TRUE
    /\ boot' = Append(boot, "vTaskStartScheduler")
    /\ mpc' = "main_thread"
    /\ UNCHANGED <<uxSchedulerSuspended, holder, taskList, mret, task_new, upc,
                   ipc, ptl, tl, covered, swept, configUSE_TIMERS, appVars>>
    /\ UNCHANGED <<clockVars, onceVars, heapVars, createVars>>

\* os.c:885-890: the scheduler runs main_thread
MainThread ==
    /\ mpc = "main_thread"
    /\ CanStep(MainTask)
    /\ boot' = Append(boot, "main_thread")
    /\ mpc' = IF configUSE_TIMERS THEN "timer_entry" ELSE "idle_entry"
    /\ UNCHANGED <<xSchedulerRunning, uxSchedulerSuspended, holder, taskList,
                   mret, task_new, upc, ipc, ptl, tl, covered, swept,
                   configUSE_TIMERS, appVars>>
    /\ UNCHANGED <<clockVars, onceVars, heapVars, createVars>>

\* os.c:894-898: the entry of the timer daemon
TimerEntry ==
    /\ mpc = "timer_entry"
    /\ CanStep(MainTask)
    /\ \E h \in HighWaterMarks : task_new' = Entry(TimerTask, h)
    /\ mret' = "idle_entry"
    /\ mpc' = "add_suspend"
    /\ UNCHANGED <<xSchedulerRunning, uxSchedulerSuspended, holder, taskList,
                   upc, ipc, ptl, tl, covered, swept, boot, configUSE_TIMERS, appVars>>
    /\ UNCHANGED <<clockVars, onceVars, heapVars, createVars>>

\* os.c:899-906: the entry of the idle task
IdleEntry ==
    /\ mpc = "idle_entry"
    /\ CanStep(MainTask)
    /\ \E h \in HighWaterMarks : task_new' = Entry(IdleTask, h)
    /\ mret' = "yield"
    /\ mpc' = "add_suspend"
    /\ UNCHANGED <<xSchedulerRunning, uxSchedulerSuspended, holder, taskList,
                   upc, ipc, ptl, tl, covered, swept, boot, configUSE_TIMERS, appVars>>
    /\ UNCHANGED <<clockVars, onceVars, heapVars, createVars>>

\* os.c:909: os_yield_trampoline()
Yield ==
    /\ mpc = "yield"
    /\ CanStep(MainTask)
    /\ mpc' = AfterYield
    /\ UNCHANGED <<xSchedulerRunning, uxSchedulerSuspended, holder, taskList,
                   mret, task_new, upc, ipc, ptl, tl, covered, swept, boot,
                   configUSE_TIMERS, appVars>>
    /\ UNCHANGED <<clockVars, onceVars, heapVars, createVars>>

\* os.c:913: hw_postinit()
HwPostInit ==
    /\ mpc = "hw_postinit"
    /\ CanStep(MainTask)
    /\ boot' = Append(boot, "hw_postinit")
    /\ mpc' = "appl_main"
    /\ UNCHANGED <<xSchedulerRunning, uxSchedulerSuspended, holder, taskList,
                   mret, task_new, upc, ipc, ptl, tl, covered, swept,
                   configUSE_TIMERS, appVars>>
    /\ UNCHANGED <<clockVars, onceVars, heapVars, createVars>>

\* os.c:915: appl_main(1, argv) is entered
ApplMain ==
    /\ mpc = "appl_main"
    /\ CanStep(MainTask)
    /\ boot' = Append(boot, "appl_main")
    /\ mpc' = "app"
    /\ UNCHANGED <<xSchedulerRunning, uxSchedulerSuspended, holder, taskList,
                   mret, task_new, upc, ipc, ptl, tl, covered, swept,
                   configUSE_TIMERS, appVars>>
    /\ UNCHANGED <<clockVars, onceVars, heapVars, createVars>>

\* os.c:915-918, 755-763: appl_main returns r, which main_thread drops, and
\* main_thread calls abort(), whose for (;;) loop has no exit
ApplReturn(r) ==
    /\ mpc = "app"
    /\ CanStep(MainTask)
    /\ appl_result' = r
    /\ mpc' = AfterReturn
    /\ UNCHANGED <<xSchedulerRunning, uxSchedulerSuspended, holder, taskList,
                   mret, task_new, upc, ipc, ptl, tl, covered, swept, boot,
                   configUSE_TIMERS, scheduled, stack_args, stack_size,
                   exit_status>>
    /\ UNCHANGED <<clockVars, onceVars, heapVars, createVars>>

\* ---- main on a build without FreeRTOS (os.c:1007-1014) ----

\* os.c:1013: main calls appl_main(argc, argv)
NativeApplMain ==
    /\ mpc = "main"
    /\ ~scheduled
    /\ mpc' = "native_app"
    /\ UNCHANGED <<xSchedulerRunning, uxSchedulerSuspended, holder, taskList,
                   mret, task_new, upc, ipc, ptl, tl, covered, swept, boot,
                   configUSE_TIMERS, appVars>>
    /\ UNCHANGED <<clockVars, onceVars, heapVars, createVars>>

\* os.c:1013: appl_main returns r
NativeApplReturn(r) ==
    /\ mpc = "native_app"
    /\ appl_result' = r
    /\ mpc' = "native_return"
    /\ UNCHANGED <<xSchedulerRunning, uxSchedulerSuspended, holder, taskList,
                   mret, task_new, upc, ipc, ptl, tl, covered, swept, boot,
                   configUSE_TIMERS, scheduled, stack_args, stack_size,
                   exit_status>>
    /\ UNCHANGED <<clockVars, onceVars, heapVars, createVars>>

\* os.c:1013: return appl_main(argc, argv)
NativeReturn ==
    /\ mpc = "native_return"
    /\ exit_status' = ExitStatus(appl_result)
    /\ mpc' = "exited"
    /\ UNCHANGED <<xSchedulerRunning, uxSchedulerSuspended, holder, taskList,
                   mret, task_new, upc, ipc, ptl, tl, covered, swept, boot,
                   configUSE_TIMERS, scheduled, stack_args, stack_size,
                   appl_result>>
    /\ UNCHANGED <<clockVars, onceVars, heapVars, createVars>>

\* ---- os_thread_create called by the application (os.c:414-537) ----

\* os.c:454-534 with stack_size s: the task of unit u is created and is ready
\* to run from here on; its entry is filled in but not linked yet
CreateUnit(u, s) ==
    /\ s \in stack_args
    /\ mpc = "create"
    /\ CanStep(MainTask)
    /\ upc[u] = "none"
    /\ \A v \in Spawned : v < u => upc[v] # "none"
    /\ upc' = [upc EXCEPT ![u] = "entry"]
    /\ stack_size' = [stack_size EXCEPT ![u] = s]
    /\ task_new' = Entry(u, StackSize(s))
    /\ mret' = "app"
    /\ mpc' = "add_suspend"
    /\ UNCHANGED <<xSchedulerRunning, uxSchedulerSuspended, holder, taskList,
                   ipc, ptl, tl, covered, swept, boot, configUSE_TIMERS,
                   scheduled, stack_args, appl_result, exit_status>>
    /\ UNCHANGED <<clockVars, onceVars, heapVars, createVars>>

\* ---- os_thread_start (os.c:317-340) ----

\* os.c:322: the entry function of unit u returns
EntryReturn(u) ==
    /\ upc[u] = "entry"
    /\ CanStep(u)
    /\ upc' = [upc EXCEPT ![u] = "suspend"]
    /\ UNCHANGED <<xSchedulerRunning, uxSchedulerSuspended, holder, taskList,
                   mpc, mret, task_new, ipc, ptl, tl, covered, swept, boot,
                   configUSE_TIMERS, appVars>>
    /\ UNCHANGED <<clockVars, onceVars, heapVars, createVars>>

\* os.c:324: vTaskSuspendAll()
ExitSuspend(u) ==
    /\ upc[u] = "suspend"
    /\ CanStep(u)
    /\ Suspend(u)
    /\ upc' = [upc EXCEPT ![u] = "mark"]
    /\ UNCHANGED <<xSchedulerRunning, taskList, mpc, mret, task_new, ipc, ptl,
                   tl, covered, swept, boot, configUSE_TIMERS, appVars>>
    /\ UNCHANGED <<clockVars, onceVars, heapVars, createVars>>

\* os.c:325-334: the search for the entry whose task is the running task, and
\* the marking of the entry found
ExitMark(u) ==
    /\ upc[u] = "mark"
    /\ CanStep(u)
    /\ LET hits == {i \in 1..Len(taskList) : taskList[i].task = u}
       IN  IF hits = {}
           THEN UNCHANGED taskList
           ELSE taskList' =
                  MarkEntry(taskList, CHOOSE i \in hits : \A j \in hits : i <= j)
    /\ upc' = [upc EXCEPT ![u] = "resume"]
    /\ UNCHANGED <<xSchedulerRunning, uxSchedulerSuspended, holder, mpc, mret,
                   task_new, ipc, ptl, tl, covered, swept, boot,
                   configUSE_TIMERS, appVars>>
    /\ UNCHANGED <<clockVars, onceVars, heapVars, createVars>>

\* os.c:335: xTaskResumeAll()
ExitResume(u) ==
    /\ upc[u] = "resume"
    /\ CanStep(u)
    /\ Resume(u)
    /\ upc' = [upc EXCEPT ![u] = "free_reent"]
    /\ UNCHANGED <<xSchedulerRunning, taskList, mpc, mret, task_new, ipc, ptl,
                   tl, covered, swept, boot, configUSE_TIMERS, appVars>>
    /\ UNCHANGED <<clockVars, onceVars, heapVars, createVars>>

\* the positions of os_thread_start before and inside its two free() calls
FreePcs == {"free_reent", "free_priv"}
FreeLockedPcs == {"free_reent_locked", "free_priv_locked"}
FreeLocked(p) ==
    IF p = "free_reent" THEN "free_reent_locked" ELSE "free_priv_locked"
AfterFree(p) == IF p = "free_reent_locked" THEN "free_priv" ELSE "delete"

\* os.c:337, 338: free() enters __malloc_lock (os.c:688-694, 729)
ExitFreeLock(u) ==
    /\ upc[u] \in FreePcs
    /\ CanStep(u)
    /\ MallocLock(u)
    /\ upc' = [upc EXCEPT ![u] = FreeLocked(upc[u])]
    /\ UNCHANGED <<xSchedulerRunning, taskList, mpc, mret, task_new, ipc, ptl,
                   tl, covered, swept, boot, configUSE_TIMERS, appVars>>
    /\ UNCHANGED <<clockVars, onceVars, heapVars, createVars>>

\* os.c:337, 338: the memory is released and free() leaves through
\* __malloc_unlock (os.c:697-703, 731)
ExitFreeUnlock(u) ==
    /\ upc[u] \in FreeLockedPcs
    /\ CanStep(u)
    /\ MallocUnlock(u)
    /\ upc' = [upc EXCEPT ![u] = AfterFree(upc[u])]
    /\ UNCHANGED <<xSchedulerRunning, taskList, mpc, mret, task_new, ipc, ptl,
                   tl, covered, swept, boot, configUSE_TIMERS, appVars>>
    /\ UNCHANGED <<clockVars, onceVars, heapVars, createVars>>

\* os.c:339: vTaskDelete(NULL)
Delete(u) ==
    /\ upc[u] = "delete"
    /\ CanStep(u)
    /\ upc' = [upc EXCEPT ![u] = "deleted"]
    /\ UNCHANGED <<xSchedulerRunning, uxSchedulerSuspended, holder, taskList,
                   mpc, mret, task_new, ipc, ptl, tl, covered, swept, boot,
                   configUSE_TIMERS, appVars>>
    /\ UNCHANGED <<clockVars, onceVars, heapVars, createVars>>

\* ---- vApplicationIdleHook (os.c:835-864) ----

\* os.c:837-840: hw_idle_hook(); vTaskSuspendAll(); ptl = &taskList
IdleSuspend ==
    /\ ipc = "idle"
    /\ IdleRuns
    /\ Suspend(IdleTask)
    /\ ptl' = 1
    /\ covered' = {u \in Spawned : upc[u] = "deleted"}
    /\ ipc' = "pass1"
    /\ UNCHANGED <<xSchedulerRunning, taskList, mpc, mret, task_new, upc, tl,
                   swept, boot, configUSE_TIMERS, appVars>>
    /\ UNCHANGED <<clockVars, onceVars, heapVars, createVars>>

\* os.c:842-845: the entry at *ptl is reclaimable and is unlinked
Pass1Unlink ==
    /\ ipc = "pass1"
    /\ IdleRuns
    /\ ptl <= Len(taskList)
    /\ Reclaimable(taskList[ptl])
    /\ taskList' = RemoveAt(taskList, ptl)
    /\ ipc' = "free"
    /\ UNCHANGED <<xSchedulerRunning, uxSchedulerSuspended, holder, mpc, mret,
                   task_new, upc, ptl, tl, covered, swept, boot,
                   configUSE_TIMERS, appVars>>
    /\ UNCHANGED <<clockVars, onceVars, heapVars, createVars>>

\* os.c:846: free(tl) enters __malloc_lock (os.c:688-694, 729)
IdleFreeLock ==
    /\ ipc = "free"
    /\ IdleRuns
    /\ MallocLock(IdleTask)
    /\ ipc' = "free_locked"
    /\ UNCHANGED <<xSchedulerRunning, taskList, mpc, mret, task_new, upc, ptl,
                   tl, covered, swept, boot, configUSE_TIMERS, appVars>>
    /\ UNCHANGED <<clockVars, onceVars, heapVars, createVars>>

\* os.c:846: the entry is released and free(tl) leaves through
\* __malloc_unlock (os.c:697-703, 731)
IdleFreeUnlock ==
    /\ ipc = "free_locked"
    /\ IdleRuns
    /\ MallocUnlock(IdleTask)
    /\ ipc' = "pass1"
    /\ UNCHANGED <<xSchedulerRunning, taskList, mpc, mret, task_new, upc, ptl,
                   tl, covered, swept, boot, configUSE_TIMERS, appVars>>
    /\ UNCHANGED <<clockVars, onceVars, heapVars, createVars>>

\* os.c:848-851: the entry at *ptl is kept, ptl = &((*ptl)->next)
Pass1Advance ==
    /\ ipc = "pass1"
    /\ IdleRuns
    /\ ptl <= Len(taskList)
    /\ ~Reclaimable(taskList[ptl])
    /\ ptl' = ptl + 1
    /\ UNCHANGED <<xSchedulerRunning, uxSchedulerSuspended, holder, taskList,
                   mpc, mret, task_new, upc, ipc, tl, covered, swept, boot,
                   configUSE_TIMERS, appVars>>
    /\ UNCHANGED <<clockVars, onceVars, heapVars, createVars>>

\* os.c:840, 854: *ptl == NULL ends the first pass; tl = taskList
Pass1Done ==
    /\ ipc = "pass1"
    /\ IdleRuns
    /\ ptl > Len(taskList)
    /\ ptl' = 0
    /\ tl' = IF taskList = <<>> THEN NoTask ELSE taskList[1].owner
    /\ ipc' = "pass2"
    /\ UNCHANGED <<xSchedulerRunning, uxSchedulerSuspended, holder, taskList,
                   mpc, mret, task_new, upc, covered, swept, boot,
                   configUSE_TIMERS, appVars>>
    /\ UNCHANGED <<clockVars, onceVars, heapVars, createVars>>

\* os.c:856-858: the unused-stack value of the entry tl points to is updated
\* if it has a task
Pass2Record ==
    /\ ipc = "pass2"
    /\ IdleRuns
    /\ tl # NoTask
    /\ LET i == IndexOf(taskList, tl)
       IN  IF taskList[i].task # NoTask
           THEN \E h \in HighWaterMarks :
                   taskList' = [taskList EXCEPT ![i].unused = h * StackWord]
           ELSE UNCHANGED taskList
    /\ ipc' = "L859"
    /\ UNCHANGED <<xSchedulerRunning, uxSchedulerSuspended, holder, mpc, mret,
                   task_new, upc, ptl, tl, covered, swept, boot,
                   configUSE_TIMERS, appVars>>
    /\ UNCHANGED <<clockVars, onceVars, heapVars, createVars>>

\* os.c:859: xTaskResumeAll() opens a window for the other tasks
Pass2Resume ==
    /\ ipc = "L859"
    /\ IdleRuns
    /\ Resume(IdleTask)
    /\ ipc' = "L860"
    /\ UNCHANGED <<xSchedulerRunning, taskList, mpc, mret, task_new, upc, ptl,
                   tl, covered, swept, boot, configUSE_TIMERS, appVars>>
    /\ UNCHANGED <<clockVars, onceVars, heapVars, createVars>>

\* os.c:860, 854: vTaskSuspendAll() closes the window; tl = tl->next
Pass2Suspend ==
    /\ ipc = "L860"
    /\ IdleRuns
    /\ Suspend(IdleTask)
    /\ tl' = NextOf(taskList, tl)
    /\ ipc' = "pass2"
    /\ UNCHANGED <<xSchedulerRunning, taskList, mpc, mret, task_new, upc, ptl,
                   covered, swept, boot, configUSE_TIMERS, appVars>>
    /\ UNCHANGED <<clockVars, onceVars, heapVars, createVars>>

\* os.c:854, 863: tl == NULL ends the second pass; xTaskResumeAll()
IdleResume ==
    /\ ipc = "pass2"
    /\ IdleRuns
    /\ tl = NoTask
    /\ Resume(IdleTask)
    /\ swept' = swept \cup covered
    /\ covered' = {}
    /\ ipc' = "idle"
    /\ UNCHANGED <<xSchedulerRunning, taskList, mpc, mret, task_new, upc, ptl,
                   tl, boot, configUSE_TIMERS, appVars>>
    /\ UNCHANGED <<clockVars, onceVars, heapVars, createVars>>

-----------------------------------------------------------------------------
(*                            SPECIFICATIONS                               *)

ClockNext ==
    \E u \in Units :
        \/ ReadSource(u)
        \/ Compare(u)
        \/ IncLoad(u)
        \/ IncStore(u)
        \/ SetLast(u)
        \/ ReturnLast(u)

OnceNext ==
    \/ StartScheduler
    \/ \E u \in Units :
          \/ OnceCall(u)
          \/ SchedulerTest(u)
          \/ Lock(u)
          \/ Unlock(u)
          \/ TestNever(u)
          \/ SetInProgress(u)
          \/ Routine(u)
          \/ RoutineReturn(u)
          \/ SetDone(u)
          \/ PollTest(u)
          \/ Sleep(u)
          \/ RecursionTest(u)
          \/ Die(u)
          \/ OnceReturn(u)

\* the guard the concurrent callers share
SharedGuard == "A"

\* a unit calls os_thread_once on the shared guard, at most MaxFairCalls
\* times
FairCall(u) ==
    /\ ncall[u] < MaxFairCalls
    /\ OnceCall(u)
    /\ stack'[u][1].g = SharedGuard

\* os_thread_once with the scheduler running: the steps that can be taken
RunningNext ==
    \E u \in Units :
          \/ FairCall(u)
          \/ SchedulerTest(u)
          \/ Lock(u)
          \/ Unlock(u)
          \/ TestNever(u)
          \/ SetInProgress(u)
          \/ Routine(u)
          \/ RoutineReturn(u)
          \/ SetDone(u)
          \/ PollTest(u)
          \/ Sleep(u)
          \/ OnceReturn(u)

\* a step of unit u inside os_thread_once other than taking the mutex
OnceStep(u) ==
    \/ SchedulerTest(u)
    \/ Unlock(u)
    \/ TestNever(u)
    \/ SetInProgress(u)
    \/ Routine(u)
    \/ RoutineReturn(u)
    \/ SetDone(u)
    \/ PollTest(u)
    \/ Sleep(u)
    \/ OnceReturn(u)

\* Fair scheduling: a unit that can run is run in the end, the routine and
\* the usleep of os.c:201 return, and a unit blocked in os_mutex_lock gets
\* the mutex in the end: every release wakes a waiter, and the units that
\* release it in the poll loop go to sleep right after (os.c:200-201)
FairScheduling ==
    \A u \in Units : WF_vars(OnceStep(u)) /\ SF_vars(Lock(u))

HeapNext == \E incr \in Incrs : Sbrk(incr)

\* requests for memory only: incr >= 0
GrowNext == \E incr \in Incrs : incr >= 0 /\ Sbrk(incr)

NameNext ==
    \E u \in Units :
        \/ NameCall(u)
        \/ SetDigit8(u)
        \/ SetDigit7(u)
        \/ CountLoad(u)
        \/ CountStore(u)
        \/ CreateNamed(u)

ArgsNext == \E p \in PriorityArgs, s \in StackArgs : CreateTask(p, s)

HostNext ==
    \/ HostCall
    \/ \E e \in Errnos : AttrStep(e)
    \/ \E e \in Errnos : PthreadCreate(e)
    \/ \E e \in Errnos : SetName(e)
    \/ HostReturn

TaskNext ==
    \/ HwInit
    \/ CreateMainThread
    \/ AddSuspend
    \/ AddLink
    \/ AddResume
    \/ vTaskStartScheduler
    \/ MainThread
    \/ TimerEntry
    \/ IdleEntry
    \/ Yield
    \/ HwPostInit
    \/ ApplMain
    \/ \E r \in ExitCodes : ApplReturn(r)
    \/ NativeApplMain
    \/ \E r \in ExitCodes : NativeApplReturn(r)
    \/ NativeReturn
    \/ MainMallocLock
    \/ MainMallocUnlock
    \/ \E u \in Spawned, s \in SpawnStacks : CreateUnit(u, s)
    \/ \E u \in Spawned : ExitFreeLock(u)
    \/ \E u \in Spawned : ExitFreeUnlock(u)
    \/ \E u \in Spawned : EntryReturn(u)
    \/ \E u \in Spawned : ExitSuspend(u)
    \/ \E u \in Spawned : ExitMark(u)
    \/ \E u \in Spawned : ExitResume(u)
    \/ \E u \in Spawned : Delete(u)
    \/ IdleSuspend
    \/ Pass1Unlink
    \/ IdleFreeLock
    \/ IdleFreeUnlock
    \/ Pass1Advance
    \/ Pass1Done
    \/ Pass2Record
    \/ Pass2Resume
    \/ Pass2Suspend
    \/ IdleResume

\* the parts of the initial state a specification does not exercise
ClockRest == ClockIdle /\ MillisIdle /\ serial = TRUE
OnceRest == OnceIdle /\ target = "FreeRTOS" /\ callee = [g \in Guards |-> NoGuard]
HeapRest ==
    /\ HeapIdle
    /\ tracking = FALSE
    /\ layout = [cs3s |-> 2, cs3e |-> 5, h2s |-> 8, h2e |-> 10]
CreateRest == NameIdle /\ ArgsIdle /\ HostIdle /\ host = "linux"
TaskRest ==
    /\ TaskIdle
    /\ configUSE_TIMERS = FALSE
    /\ scheduled = TRUE
    /\ stack_args = {0}

\* os_get_time_monotonic called one call after another, by any unit
ClockInit ==
    /\ ClockIdle /\ MillisIdle /\ serial = TRUE
    /\ OnceRest /\ HeapRest /\ CreateRest /\ TaskRest
SpecClock == ClockInit /\ [][ClockNext]_vars

\* os_get_time_monotonic called by units that preempt each other at any point
ClockRaceInit ==
    /\ ClockIdle /\ MillisIdle /\ serial = FALSE
    /\ OnceRest /\ HeapRest /\ CreateRest /\ TaskRest
SpecClockRace == ClockRaceInit /\ [][ClockNext]_vars

\* os_get_time_monotonic of an ARDUINO build called one call after another,
\* millis() reading anything between two calls
ArduinoInit ==
    /\ ClockIdle /\ MillisIdle /\ serial = TRUE
    /\ OnceRest /\ HeapRest /\ CreateRest /\ TaskRest
ArduinoNext ==
    \/ \E m \in Millis : ArduinoCall(m)
SpecArduino == ArduinoInit /\ [][ArduinoNext]_vars

\* os_thread_once on either build, for every way the routines nest
\* the ways the routines nest; the two guards are interchangeable, so of
\* two ways that differ only by renaming A and B one is kept
Nestings ==
    {c \in [Guards -> Guards \cup {NoGuard}] :
        \/ c["B"] = NoGuard
        \/ c["A"] # NoGuard /\ ~(c["A"] = "B" /\ c["B"] = "B")}

OnceInit ==
    /\ OnceIdle
    /\ target \in {"FreeRTOS", "EMSCRIPTEN"}
    /\ callee \in Nestings
    /\ ClockRest
    /\ HeapRest
    /\ CreateRest
    /\ TaskRest
SpecOnce == OnceInit /\ [][OnceNext]_vars

\* the routines that terminate: no routine calls os_thread_once on its own
\* guard, directly or through the routine of the other guard
Terminating ==
    {c \in [Guards -> Guards \cup {NoGuard}] :
        \A g \in Guards : c[g] # g /\ (c[g] # NoGuard => c[c[g]] = NoGuard)}

\* os_thread_once called by units of a FreeRTOS build after
\* vTaskStartScheduler, with routines that terminate, under fair scheduling
RunningInit ==
    /\ sched = "RUNNING"
    /\ target = "FreeRTOS"
    /\ callee \in Terminating
    /\ state = [g \in Guards |-> "NEVER"]
    /\ onceMutex = NoUnit
    /\ stack = [u \in Units |-> <<>>]
    /\ count = [g \in Guards |-> 0]
    /\ ncall = [u \in Units |-> 0]
    /\ died = FALSE
    /\ retd = [u \in Units |-> {}]
    /\ ClockRest
    /\ HeapRest
    /\ CreateRest
    /\ TaskRest
SpecOnceFair == RunningInit /\ [][RunningNext]_vars /\ FairScheduling

\* _sbrk_r for every layout and every sequence of increments
HeapInit ==
    /\ HeapIdle /\ tracking = FALSE /\ layout \in Layouts
    /\ ClockRest /\ OnceRest /\ CreateRest /\ TaskRest
SpecHeap == HeapInit /\ [][HeapNext]_vars

\* _sbrk_r called with non-negative increments only, on every layout, the
\* addresses handed out being recorded
GrowInit ==
    /\ HeapIdle /\ tracking = TRUE /\ layout \in Layouts
    /\ ClockRest /\ OnceRest /\ CreateRest /\ TaskRest
SpecGrow == GrowInit /\ [][GrowNext]_vars

\* the auto-generated names, for callers that preempt each other at any point
NameInit == CreateRest /\ ClockRest /\ OnceRest /\ HeapRest /\ TaskRest
SpecName == NameInit /\ [][NameNext]_vars

\* the priority and stack size of os_thread_create, for every pair tried
ArgsInit == CreateRest /\ ClockRest /\ OnceRest /\ HeapRest /\ TaskRest
SpecArgs == ArgsInit /\ [][ArgsNext]_vars

\* the pthread branch of os_thread_create on every host build, every library
\* call returning any of the codes
HostInit ==
    /\ NameIdle
    /\ ArgsIdle
    /\ HostIdle
    /\ host \in Hosts
    /\ ClockRest
    /\ OnceRest
    /\ HeapRest
    /\ TaskRest
SpecHost == HostInit /\ [][HostNext]_vars

\* bootstrap, spawning, exiting units and the idle hook on a FreeRTOS build
\* with or without the timer daemon
TaskInit ==
    /\ TaskIdle
    /\ configUSE_TIMERS \in BOOLEAN
    /\ scheduled \in BOOLEAN
    /\ stack_args = {0}
    /\ ClockRest
    /\ OnceRest
    /\ HeapRest
    /\ CreateRest
SpecTasks == TaskInit /\ [][TaskNext]_vars

\* the same, units spawned with any of SpawnStacks
StacksInit ==
    /\ TaskIdle
    /\ configUSE_TIMERS \in BOOLEAN
    /\ scheduled \in BOOLEAN
    /\ stack_args = SpawnStacks
    /\ ClockRest
    /\ OnceRest
    /\ HeapRest
    /\ CreateRest
SpecStacks == StacksInit /\ [][TaskNext]_vars

-----------------------------------------------------------------------------
(*                               PROPERTIES                                *)

Increasing(s) == \A i, j \in 1..Len(s) : i < j => s[i] < s[j]
Distinct(s) == \A i, j \in 1..Len(s) : i < j => s[i] /= s[j]

\* C1: when os_get_time_monotonic is called one call after another, every
\* returned value is strictly greater than every value returned before it,
\* whatever the source reads (constant, decreasing, negative).
C1_SerialStrictlyIncreasing == serial => Increasing(ret)

\* C1 witness: a source that gave the same reading to every one of
\* MaxClockCalls consecutive calls, all of which have returned
C1_ConstantSource ==
    /\ serial
    /\ Len(ret) = MaxClockCalls
    /\ Len(ret) = Len(src)
    /\ \A i \in 1..Len(src) : src[i] = src[1]

\* C2: also when the calls are preempted at any point, no two calls ever
\* return the same value and `last` never decreases.
C2_ConcurrentDistinct == [](Distinct(ret)) /\ [][last' >= last]_vars

Max(a, b) == IF a >= b THEN a ELSE b
\* the value the call before the i-th returned; 0, the initial `last`
\* (os.c:598), for the first call
LastBefore(i) == IF i = 1 THEN 0 ELSE ret[i - 1]

\* C22: every call made after the call before it has returned returns
\* exactly max(t, last_before + 1), t being its converted source reading
\* and last_before the value the previous call returned (0 initially): the
\* reading itself when it is strictly greater than `last`, last + 1
\* otherwise; and when it returns, `last` holds the value it returns.
C22_ReturnsMaxOfReadingAndNext ==
    serial =>
    /\ \A i \in 1..Len(ret) :
          /\ ret[i] = Max(src[i], LastBefore(i) + 1)
          /\ src[i] > LastBefore(i) => ret[i] = src[i]
          /\ src[i] <= LastBefore(i) => ret[i] = LastBefore(i) + 1
    /\ (\A u \in Units : cpc[u] = "idle") =>
          last = (IF ret = <<>> THEN 0 ELSE ret[Len(ret)])
    /\ \A u \in Units :
          cpc[u] = "ret" => last = Max(time[u], LastBefore(Len(ret) + 1) + 1)

\* C22 witness: MaxClockCalls calls have returned, one of them with its
\* reading unchanged and a later one with last + 1 in place of a reading
\* that had gone backwards
C22_BothBranchesTaken ==
    /\ serial
    /\ Len(ret) = MaxClockCalls
    /\ \E i, j \in 1..Len(ret) :
          /\ i < j
          /\ ret[i] = src[i] /\ src[i] > LastBefore(i) + 1
          /\ src[j] < src[i] /\ ret[j] = LastBefore(j) + 1

\* C23: on the ARDUINO clock path every call whose millis() reading is
\* smaller than the reading of the call before it (the counter has wrapped)
\* increments overflow_millis by exactly one, and the pre-correction time
\* of that call is greater than that of the call before it.
C23_WrapCounted ==
    [][(areads # <<>> /\ Len(areads') = Len(areads) + 1
          /\ areads'[Len(areads')] < areads[Len(areads)]) =>
            /\ overflow_millis' = overflow_millis + 1
            /\ src'[Len(src')] > src[Len(src)]]_vars

Frames(u) == {stack[u][k] : k \in 1..Len(stack[u])}

\* C3: with the scheduler running, a routine is invoked at most once, and
\* exactly once as soon as some caller of its guard has returned.
C3_RoutineRunsOnce ==
    \A g \in Guards :
        /\ count[g] <= 1
        /\ (\E u \in Units : g \in retd[u]) => count[g] = 1

\* C3 witness: the scheduler runs, every unit made one call, all of them on
\* the guard A, and all of them have returned
C3_AllCallersReturned ==
    /\ sched = "RUNNING"
    /\ \A u \in Units : ncall[u] = 1 /\ "A" \in retd[u] /\ ~InOnce(u)
    /\ count["A"] = 1

\* C4: with the scheduler running, a caller is past the poll loop (about to
\* unlock and return, os.c:204-217) only when its guard is Done.
C4_ReturnOnlyWhenDone ==
    \A u \in Units : \A f \in Frames(u) :
        (f.mode = "sched" /\ f.pc \in {"L204", "L217"}) => state[f.g] = "DONE"

\* C4 witness: a caller that found the guard InProgress, polled, and is now
\* returning
C4_PollerReturns ==
    \E u \in Units :
        /\ At(u, {"L217"})
        /\ Top(u).mode = "sched"
        /\ Top(u).polled

\* C5: a guard only moves Never -> InProgress -> Done; it is marked
\* InProgress only from Never and Done only from InProgress, so each
\* transition happens once and Done is final.
C5_GuardTransitions ==
    [][ /\ \A g \in Guards :
              state'[g] /= state[g] =>
                  <<state[g], state'[g]>> \in
                      {<<"NEVER", "INPROGRESS">>, <<"INPROGRESS", "DONE">>}
        /\ \A u \in Units :
              (InOnce(u) /\ stack'[u] /= stack[u]) =>
                  /\ Top(u).pc \in {"L190", "L211", "E672"} => state[Top(u).g] = "NEVER"
                  /\ Top(u).pc \in {"L194", "L213", "E674"} => state[Top(u).g] = "INPROGRESS"
      ]_vars

\* C5 witness: one guard initialised before the scheduler started, the other
\* being initialised by one unit while another unit polls for it
C5_BothPhases ==
    /\ sched = "RUNNING"
    /\ state["A"] = "DONE"
    /\ retd = [u \in Units |-> {}]
    /\ state["B"] = "INPROGRESS"
    /\ \E u \in Units : At(u, {"L201"})

\* C6: with no scheduler active, a call of os_thread_once made by a routine
\* on the guard that routine is running under never returns to the routine.
C6_RecursiveCallHalts ==
    \A u \in Units : \A k \in 2..Len(stack[u]) :
        ~ /\ k = Len(stack[u])
          /\ stack[u][k].pc \in {"L217", "E680"}
          /\ stack[u][k].mode /= "sched"
          /\ \E j \in 1..(k - 1) : stack[u][j].g = stack[u][k].g

\* C7: with the scheduler running, a unit enters and runs the routine without
\* holding onceMutex, never waits for onceMutex while holding it, and the
\* holder of onceMutex is never blocked, sleeping or inside a routine.
C7_RoutineRunsUnlocked ==
    /\ \A u \in Units : At(u, {"L192", "L192r"}) => onceMutex /= u
    /\ \A u \in Units : At(u, {"L187", "L193", "L202"}) => onceMutex /= u
    /\ onceMutex /= NoUnit =>
          At(onceMutex, {"L188", "L190", "L191", "L194", "L197", "L200", "L204"})

\* C7 witness: the routine of guard A called os_thread_once on guard B, which
\* ran B's routine and is returning into A's routine
C7_NestedCallCompletes ==
    \E u \in Units :
        /\ Len(stack[u]) = 2
        /\ stack[u][1].g = "A" /\ stack[u][1].pc = "L192r"
        /\ stack[u][2].g = "B" /\ stack[u][2].pc = "L217"
        /\ stack[u][2].mode = "sched"
        /\ count["B"] = 1

\* a step that is a call of _sbrk_r
SbrkStep == sbrk'.seq /= sbrk.seq

\* C8: a request is served from the primary region whenever heap_end + incr
\* does not exceed its end; otherwise, if a secondary region is present and
\* heap2_end + incr does not exceed its end, it is served from the secondary
\* region: the previous heap2_end is returned and heap2_end advances by incr.
\* (The sums are the sums the code computes, on AddrBits-wide pointers.)
C8_SecondaryFallback ==
    [][ SbrkStep =>
          LET i == sbrk'.incr
              he == IF heap_end = 0 THEN layout.cs3s ELSE heap_end
              h2 == IF heap2_end = 0 THEN layout.h2s ELSE heap2_end
          IN IF (he + i) % AddrSpace <= layout.cs3e
             THEN /\ sbrk'.outcome = "primary"
                  /\ sbrk'.ptr = he
                  /\ heap_end' = (he + i) % AddrSpace
                  /\ heap2_end' = h2
             ELSE (layout.h2s /= layout.h2e /\ (h2 + i) % AddrSpace <= layout.h2e) =>
                  /\ sbrk'.outcome = "secondary"
                  /\ sbrk'.ptr = h2
                  /\ heap2_end' = (h2 + i) % AddrSpace
                  /\ heap_end' = he
      ]_vars

\* C8 witness: the primary region is full and a request that fills the
\* secondary region exactly was served from its start
C8_ContinuesInSecondary ==
    /\ heap_end = layout.cs3e
    /\ sbrk.outcome = "secondary"
    /\ sbrk.ptr = layout.h2s
    /\ sbrk.incr = layout.h2e - layout.h2s
    /\ heap2_end = layout.h2e

\* C9: an allocation request (incr >= 0) takes the fatal path exactly when it
\* fits neither the primary region nor a present secondary region; the fatal
\* path returns no pointer and halts, and after it nothing is allocated.
C9_FatalOnlyWhenExhausted ==
    [][ /\ (SbrkStep /\ sbrk'.incr >= 0) =>
              LET i == sbrk'.incr
                  he == IF heap_end = 0 THEN layout.cs3s ELSE heap_end
                  h2 == IF heap2_end = 0 THEN layout.h2s ELSE heap2_end
                  exhausted == /\ he + i > layout.cs3e
                               /\ layout.h2s = layout.h2e \/ h2 + i > layout.h2e
              IN /\ (sbrk'.outcome = "fatal") = exhausted
                 /\ (sbrk'.outcome = "fatal") = halted'
        /\ halted => UNCHANGED heapVars
      ]_vars

\* C10: neither bump pointer ever decreases, for any sequence of _sbrk_r
\* calls with any increment.
C10_BumpOnly == [][heap_end' >= heap_end /\ heap2_end' >= heap2_end]_vars

-----------------------------------------------------------------------------
(*                 PROPERTIES OF THREAD CREATION (os.c:414-587)            *)

\* C11: every auto-generated name differs from the name of every unit that is
\* live, also when several units call os_thread_create with name == NULL
\* concurrently (no unit exits here, so every name created so far is live).
C11_AutoNamesDistinct == Distinct(names)

\* C12: for every integer priority argument (zero, negative, in range, or
\* >= configMAX_PRIORITIES) the priority handed to the scheduler lies in
\* [1, configMAX_PRIORITIES - 1].
C12_PriorityInRange ==
    created.called => created.uxPriority \in 1..(configMAX_PRIORITIES - 1)

\* C13: priority == 0 creates the unit with priority configMAX_PRIORITIES / 2;
\* stack_size == 0 creates it with a 2048-byte stack and records 2048 as the
\* entry's initial unused-stack value; non-zero in-range arguments are passed
\* through unchanged (the stack as the depth in words FreeRTOS takes).
C13_Defaults ==
    created.called =>
        /\ created.priority = 0 =>
               created.uxPriority = configMAX_PRIORITIES \div 2
        /\ created.priority \in 1..(configMAX_PRIORITIES - 1) =>
               created.uxPriority = created.priority
        /\ created.stack_size = 0 =>
               /\ created.stack = 2048
               /\ created.usStackDepth * StackWord = 2048
               /\ created.unused = 2048
        /\ created.stack_size # 0 =>
               /\ created.stack = created.stack_size
               /\ created.usStackDepth = created.stack_size \div StackWord
               /\ created.unused = created.stack_size

\* C13 witness: a call with both arguments 0 has been made
C13_BothDefaulted ==
    created.called /\ created.priority = 0 /\ created.stack_size = 0

\* C14: on host-threaded targets, once a step of os_thread_create has failed
\* no later step is executed (no thread is created after a failed attribute
\* step, no name is set after a failed create), the call returns the code of
\* the failed step, and it returns 0 only if pthread_create succeeded; the
\* call never halts: it is either still going through its steps or returned.
C14_FirstFailureReturned ==
    /\ \A i \in 1..(Len(done) - 1) : done[i].result = 0
    /\ \A i \in 1..Len(done) :
          IF i <= Len(HostSteps(host))
          THEN done[i].call = HostSteps(host)[i]
          ELSE /\ done[i].call = "pthread_setname_np"
               /\ i = Len(HostSteps(host)) + 1
               /\ SetsName(host)
    /\ hpc \in {"idle", "pthread_setname_np", "return", "returned"}
               \cup {HostSteps(host)[i] : i \in 1..Len(HostSteps(host))}
    /\ hpc = "returned" =>
          /\ hret # NoReturn
          /\ hret # 0 => /\ done[Len(done)].result = hret
                         /\ done[Len(done)].call # "pthread_setname_np"
          /\ hret = 0 <=> \E i \in 1..Len(done) :
                              done[i].call = "pthread_create" /\ done[i].result = 0

\* C14 witness: a build with every attribute call, the scheduling parameters
\* were refused and the call has returned that code
C14_SchedParamFailed ==
    /\ host = "other"
    /\ hpc = "returned"
    /\ hret = 22
    /\ done[Len(done)].call = "pthread_attr_setschedparam"

-----------------------------------------------------------------------------
(*      PROPERTIES OF THE TASK REGISTRY, THE IDLE HOOK AND THE BOOTSTRAP   *)

\* the entry allocated for task t is linked in the registry
Linked(t) == t \in Owners(taskList)
\* the linked entry allocated for task t
EntryOf(t) == taskList[IndexOf(taskList, t)]
\* entries whose task field is not NULL
Live == {i \in 1..Len(taskList) : taskList[i].task # NoTask}

\* C15: for every spawned unit and every interleaving of its creator, the
\* unit itself and the idle hook: once the unit has returned from its entry
\* function and left os_thread_start, its registry entry is marked
\* reclaimable, and after a complete idle-hook cycle that began later the
\* entry is no longer in taskList.
C15_ExitedEntryRemoved ==
    \A u \in Spawned :
        /\ upc[u] = "deleted" /\ Linked(u) =>
              EntryOf(u).task = NoTask /\ EntryOf(u).unused = DELETED_TASK_MAGIC
        /\ u \in swept => ~Linked(u)

\* the tasks main and main_thread register: thread.main, the idle task and,
\* where the build has one, the timer daemon
SystemTasks ==
    {MainTask, IdleTask} \cup (IF configUSE_TIMERS THEN {TimerTask} ELSE {})
\* every unit has been spawned, every os_thread_create call has returned and
\* no unit has returned from its entry function
AllRunning ==
    /\ mpc = "app"
    /\ \A u \in Spawned : upc[u] = "entry" /\ stack_size[u] = 0
\* every unit had gone before a completed idle-hook cycle began
AllSwept == swept = Spawned

InRegistry(t) ==
    \/ t = MainTask /\ mpc \in {"add_link", "add_resume"}
    \/ t = IdleTask /\ ipc \in {"pass1", "free", "free_locked", "pass2", "L859"}
    \/ t \in Spawned /\ upc[t] \in {"mark", "resume"}
\* the task that takes the step
Stepper ==
    IF mpc' # mpc THEN MainTask
    ELSE IF ipc' # ipc THEN IdleTask
    ELSE CHOOSE u \in Spawned : upc'[u] # upc[u]

\* C17: every write to the task registry (linking, marking, unlinking,
\* recording unused-stack values) is a step of the task that has suspended
\* the scheduler, and a task inside a registry section is that task, so no
\* two tasks read or mutate the list at the same time.
C17_WritesUnderSuspension ==
    /\ [](\A t \in Spawned \cup {MainTask, IdleTask} :
            InRegistry(t) => uxSchedulerSuspended > 0 /\ holder = t)
    /\ [][taskList' # taskList =>
            /\ uxSchedulerSuspended > 0
            /\ uxSchedulerSuspended' > 0
            /\ holder = Stepper
            /\ holder' = Stepper]_vars

\* C17 witness: a unit is marking its entry while its creator stands before
\* add_thread_to_task_list with another entry to link
C17_MarkWhileCreatorWaits ==
    \E u \in Spawned :
        /\ upc[u] = "mark"
        /\ holder = u
        /\ Linked(u)
        /\ mpc = "add_suspend"

\* no task is stuck inside a section: while the scheduler is suspended the
\* task that suspended it is known and a step is possible
NoDeadlock ==
    /\ uxSchedulerSuspended > 0 <=> holder # NoTask
    /\ uxSchedulerSuspended > 0 => ENABLED TaskNext

\* C18 as stated: the critical section is strictly non-reentrant - in every
\* reachable state the suspend nesting depth is at most 1, the free() of a
\* reclaimed entry in the idle hook included - and spawners, exiting units
\* and the health monitor never deadlock against each other.
C18_NeverNested == uxSchedulerSuspended \in {0, 1} /\ NoDeadlock

\* C18 amended: the suspend nesting depth is at most 2, and it is 2 only
\* while the idle hook is inside the free() of a reclaimed entry, between
\* __malloc_lock and __malloc_unlock; spawners, exiting units and the health
\* monitor never deadlock against each other.
C18_NestedOnlyInFree ==
    /\ uxSchedulerSuspended \in {0, 1, 2}
    /\ uxSchedulerSuspended = 2 => holder = IdleTask /\ ipc = "free_locked"
    /\ NoDeadlock

\* C18 witness: the idle hook is freeing a reclaimed entry with the scheduler
\* suspended twice
C18_FreeInsideSection ==
    /\ ipc = "free_locked"
    /\ holder = IdleTask
    /\ uxSchedulerSuspended = 2

\* C19: when a unit's entry function has returned, os_thread_start only marks
\* the unit's entry (task = NULL, unused = DELETED_TASK_MAGIC): the entry
\* stays linked at its place, every other entry is untouched, and an entry
\* leaves the list only by a step of the idle hook.
C19_MarkOnly ==
    /\ [][\A u \in Spawned : upc[u] = "mark" /\ upc'[u] = "resume" =>
            /\ Len(taskList') = Len(taskList)
            /\ \A i \in 1..Len(taskList) :
                  /\ taskList'[i].owner = taskList[i].owner
                  /\ \/ taskList'[i] = taskList[i]
                     \/ /\ taskList[i].task = u
                        /\ taskList'[i].task = NoTask
                        /\ taskList'[i].unused = DELETED_TASK_MAGIC
                        /\ \A j \in 1..Len(taskList) :
                              j # i => taskList'[j] = taskList[j]]_vars
    /\ [][Owners(taskList) \ Owners(taskList') # {} =>
            Stepper = IdleTask /\ ipc = "pass1"]_vars

\* C19 witness: a unit has left os_thread_start and its marked entry is still
\* linked, the idle hook not having run since
C19_MarkedStillLinked ==
    \E u \in Spawned :
        /\ upc[u] = "deleted"
        /\ Linked(u)
        /\ EntryOf(u).task = NoTask
        /\ EntryOf(u).unused = DELETED_TASK_MAGIC

\* the five bootstrap steps of the claim, in its order; MainThreadLaunch is
\* the moment main_thread starts to run (its task is created earlier, by
\* main, and cannot run before the scheduler is started)
BootSteps ==
    <<"hw_init", "vTaskStartScheduler", "main_thread", "hw_postinit", "appl_main">>
IsBootStep(e) == e # "xTaskCreate"
BootTaken == SelectSeq(boot, IsBootStep)

\* C20: the bootstrap steps are taken in the order hw_init, scheduler started,
\* main thread running, hw_postinit, appl_main, each exactly once: hw_init
\* comes before anything else, hw_postinit runs in the main thread with the
\* scheduler started, and the application is inside appl_main only after
\* hw_postinit has returned.
C20_BootOrder ==
    scheduled =>
    /\ Len(BootTaken) <= Len(BootSteps)
    /\ \A i \in 1..Len(BootTaken) : BootTaken[i] = BootSteps[i]
    /\ boot # <<>> => boot[1] = "hw_init"
    /\ mpc # "main" => boot # <<>>
    /\ mpc \in {"hw_postinit", "appl_main", "app", "abort"} =>
          xSchedulerRunning /\ SubSeq(BootTaken, 1, 3) = SubSeq(BootSteps, 1, 3)
    /\ mpc \in {"app", "abort"} \/ (\E u \in Spawned : upc[u] # "none") =>
          BootTaken = BootSteps

\* C20 witness: the application is running after a complete bootstrap
C20_ApplicationRunning ==
    /\ mpc = "app"
    /\ BootTaken = BootSteps
    /\ Linked(IdleTask)


\* C21: on a scheduled target, once appl_main has returned the main thread is
\* inside abort and never leaves it, it is not recorded as returned to any
\* caller, and the system makes no further application progress: no unit
\* takes a step, no unit is spawned and the registry does not change; on a
\* build without a scheduler main returns appl_main's result as the exit
\* status.
C21_ReturnHaltsSystem ==
    /\ [][mpc = "abort" =>
            /\ mpc' = "abort"
            /\ upc' = upc
            /\ taskList' = taskList]_vars
    /\ [](scheduled /\ appl_result # NoReturn =>
            mpc = "abort" /\ exit_status = NoReturn)
    /\ [](mpc = "exited" =>
            ~scheduled /\ appl_result \in ExitCodes /\ exit_status = appl_result)

\* C21, the part the code keeps: the main thread never leaves abort, spawns
\* no unit from there, the idle hook never runs again, and the native main
\* returns appl_main's result
C21_MainThreadHalts ==
    /\ [][mpc = "abort" =>
            /\ mpc' = "abort"
            /\ ipc' = ipc
            /\ \A u \in Spawned : upc[u] = "none" => upc'[u] = "none"]_vars
    /\ [](scheduled /\ appl_result # NoReturn =>
            mpc = "abort" /\ exit_status = NoReturn)
    /\ [](mpc = "exited" =>
            ~scheduled /\ appl_result \in ExitCodes /\ exit_status = appl_result)

\* C24: the idle hook removes a registry entry only if the unit's entry
\* function has returned: whatever stack size the unit was spawned with and
\* whatever unused-stack value is recorded, the entry of a unit that is
\* still inside its entry function is never unlinked.
C24_LiveEntryKept ==
    [][\A u \in Spawned :
          upc[u] = "entry" /\ u \in Owners(taskList) =>
             u \in Owners(taskList')]_vars

\* C24, the part the code keeps: the entry of a live unit spawned with any
\* stack size other than DELETED_TASK_MAGIC is never unlinked
C24_LiveEntryKeptOtherStacks ==
    [][\A u \in Spawned :
          /\ upc[u] = "entry"
          /\ u \in Owners(taskList)
          /\ StackSize(stack_size[u]) # DELETED_TASK_MAGIC
          => u \in Owners(taskList')]_vars

\* the idle hook is inside its second pass with the cursor on an entry
InPass2 == ipc \in {"pass2", "L859", "L860"} /\ tl # NoTask

\* C25, the cursor: through the second pass, windows included, the entry
\* the cursor points to stays linked in taskList, and no step of a task
\* other than the idle task removes an entry
C25_CursorStaysLinked ==
    /\ [](InPass2 => tl \in Owners(taskList))
    /\ [][ipc' = ipc => Owners(taskList) \subseteq Owners(taskList')]_vars

\* C25: during the second pass of the idle hook the entry the cursor points
\* to is never unlinked by the units that run in the resumption windows, so
\* the cursor always points to an entry of taskList, and the stack
\* high-water mark is queried only for handles of units that have not been
\* deleted.
C25_CursorAndHandlesValid ==
    /\ C25_CursorStaysLinked
    /\ [][(ipc = "pass2" /\ ipc' = "L859" /\ tl # NoTask
            /\ EntryOf(tl).task \in Spawned) =>
              upc[EntryOf(tl).task] # "deleted"]_vars

\* C26: for every sequence of _sbrk_r calls with non-negative increments,
\* the block [p, p + incr) of every successful call lies entirely inside
\* the primary region or entirely inside the secondary region and shares no
\* address with a block returned before; and in every reachable state
\* primary_start <= heap_end <= primary_end and secondary_start <=
\* heap2_end <= secondary_end (the pointers read as after their first use,
\* os.c:780-787).
C26_BlocksDisjointInRegions ==
    /\ [][(SbrkStep /\ sbrk'.outcome \in {"primary", "secondary"}) =>
            LET p == sbrk'.ptr
                i == sbrk'.incr
            IN /\ \/ layout.cs3s <= p /\ p + i <= layout.cs3e
                  \/ layout.h2s <= p /\ p + i <= layout.h2e
               /\ Block(p, i) \cap taken = {}]_vars
    /\ [](/\ layout.cs3s <= HeapEnd /\ HeapEnd <= layout.cs3e
          /\ layout.h2s <= Heap2End /\ Heap2End <= layout.h2e)

\* C26, the part the code keeps: the same on a layout where no pointer sum
\* can pass the end of the address space
NoSumWraps ==
    /\ layout.cs3e + AddrSpace \div 2 <= AddrSpace
    /\ layout.h2e + AddrSpace \div 2 <= AddrSpace
C26_WhereNoSumWraps ==
    /\ [][(NoSumWraps /\ SbrkStep
            /\ sbrk'.outcome \in {"primary", "secondary"}) =>
            LET p == sbrk'.ptr
                i == sbrk'.incr
            IN /\ \/ layout.cs3s <= p /\ p + i <= layout.cs3e
                  \/ layout.h2s <= p /\ p + i <= layout.h2e
               /\ Block(p, i) \cap taken = {}]_vars
    /\ [](NoSumWraps =>
            /\ layout.cs3s <= HeapEnd /\ HeapEnd <= layout.cs3e
            /\ layout.h2s <= Heap2End /\ Heap2End <= layout.h2e)

\* the vTaskSuspendAll calls the main thread, unit u and the idle task have
\* made and not yet matched by xTaskResumeAll, read off their positions
MainDepth ==
    IF mpc \in {"add_link", "add_resume"} THEN 1
    ELSE IF mpc \in LockedPcs /\ xSchedulerRunning THEN 1
    ELSE 0
UnitDepth(u) ==
    IF upc[u] \in {"mark", "resume"} \cup FreeLockedPcs THEN 1 ELSE 0
IdleDepth ==
    IF ipc \in {"pass1", "free", "pass2", "L859"} THEN 1
    ELSE IF ipc = "free_locked" THEN 2
    ELSE 0
InsideUnits == {u \in Spawned : UnitDepth(u) = 1}

\* C27: scheduler suspend and resume calls are balanced in the
\* __malloc_lock / __malloc_unlock pairs (before and after the scheduler is
\* started), in add_thread_to_task_list, in the exit path of
\* os_thread_start and in the idle hook: the depth is the number of
\* vTaskSuspendAll calls the tasks are inside of, which is 0 for a task
\* outside these operations, it is never negative, every xTaskResumeAll is
\* a step of the task that suspended, taken at a depth above 0, and the
\* scheduler is never left suspended by a completed operation.
C27_SuspendResumeBalanced ==
    /\ [](uxSchedulerSuspended =
             MainDepth + Cardinality(InsideUnits) + IdleDepth)
    /\ [](uxSchedulerSuspended >= 0)
    /\ [](uxSchedulerSuspended > 0 => holder # NoTask)
    /\ [][uxSchedulerSuspended' < uxSchedulerSuspended =>
            /\ uxSchedulerSuspended > 0
            /\ uxSchedulerSuspended' = uxSchedulerSuspended - 1
            /\ holder = Stepper]_vars

\* C27 witness: every operation has completed - malloc before and after the
\* start of the scheduler, the registrations, the exit paths with their
\* free() calls and a whole idle-hook cycle that freed every entry - and
\* the scheduler is not suspended
C27_AllCompleted ==
    /\ AllSwept
    /\ \A u \in Spawned : upc[u] = "deleted"
    /\ mpc = "app"
    /\ ipc = "idle"
    /\ ~configUSE_TIMERS
    /\ uxSchedulerSuspended = 0

\* C28: with the scheduler running and routines that terminate and do not
\* call os_thread_once on their own guard, under fair scheduling every
\* caller of os_thread_once returns in the end - none is blocked for ever
\* on onceMutex or stuck in the poll loop - its scheduled call returns 0
\* with the guard DONE, and a unit outside os_thread_once does not hold
\* onceMutex.
C28_EveryCallerReturns ==
    /\ \A u \in Units : InOnce(u) ~> ~InOnce(u)
    /\ \A u \in Units : [](~InOnce(u) => onceMutex # u)
    /\ \A u \in Units : [](\A g \in retd[u] : state[g] = "DONE")

\* C28 witness: a caller that found the guard in progress and went round
\* the poll loop has left it, has released onceMutex and is about to return
\* 0, after the caller that ran the routine returned from its call on the
\* same guard
C28_PollerAndRunnerThrough ==
    /\ sched = "RUNNING"
    /\ onceMutex = NoUnit
    /\ \E u, v \in Units :
          /\ u # v
          /\ At(u, {"L217"})
          /\ Top(u).polled
          /\ Top(u).g \in retd[v]
          /\ ~InOnce(v)

====
